---- MODULE Spec2Model ----
(***************************************************************************)
(* Paper-trading ledger of trading-system/skills/paper_trade.py together   *)
(* with the portfolio reader of trading-system/skills/get_portfolio.py.    *)
(*                                                                         *)
(* Money, prices and quantities are Python floats in the source.  They are *)
(* modelled as exact rationals [n |-> numerator, d |-> denominator > 0] in *)
(* lowest terms, so every arithmetic step of the source is carried out     *)
(* (division included) and only IEEE rounding is abstracted away.          *)
(***************************************************************************)
EXTENDS Integers, Sequences, FiniteSets, TLC

----------------------------------------------------------------------------
(* Rational arithmetic *)

Abs(x) == IF x < 0 THEN -x ELSE x

RECURSIVE GCD(_, _)
GCD(a, b) == IF b = 0 THEN a ELSE GCD(b, a % b)

Rat(n, d) ==
    LET g == GCD(Abs(n), Abs(d))
        s == IF d < 0 THEN -1 ELSE 1
    IN  [n |-> (s * n) \div g, d |-> (s * d) \div g]

Zero == [n |-> 0, d |-> 1]
RInt(i) == [n |-> i, d |-> 1]

\* sums over the least common denominator and products after cancelling
\* across the fraction bars, so that intermediate values stay small
RAdd(x, y) ==
    LET l == (x.d \div GCD(x.d, y.d)) * y.d
    IN  Rat(x.n * (l \div x.d) + y.n * (l \div y.d), l)
RSub(x, y) == RAdd(x, [n |-> -y.n, d |-> y.d])
RMul(x, y) ==
    LET g1 == GCD(Abs(x.n), y.d)
        g2 == GCD(Abs(y.n), x.d)
    IN  IF x.n = 0 \/ y.n = 0 THEN Zero
        ELSE Rat((x.n \div g1) * (y.n \div g2), (x.d \div g2) * (y.d \div g1))
RDiv(x, y) ==
    IF y.n = 0 THEN Rat(x.n, 0)
    ELSE RMul(x, IF y.n < 0 THEN [n |-> -y.d, d |-> -y.n] ELSE [n |-> y.d, d |-> y.n])
RLt(x, y) == RSub(x, y).n < 0
RLe(x, y) == RSub(x, y).n <= 0
RMin(x, y) == IF RLe(x, y) THEN x ELSE y

----------------------------------------------------------------------------
(* Bounds and input domains *)

MaxCalls == 2
MaxReads == 2

Agents == {"a1", "a2"}
UnknownAgent == "ghost"
Assets == {"BTC", "ETH"}
Sides == {"BUY", "SELL"}
Prices == {RInt(30000), RInt(60000)}
Notionals == {RInt(50), RInt(100)}
FeeRates == {Zero, Rat(1, 1000), RInt(2)}

STARTING_CAPITAL == 100
DUST_SCALE == 100000

NoRow == [missing |-> "row"]

AllAgents == Agents \cup {UnknownAgent}

Reasons == {"strategy_signal"}

\* orders that satisfy the PaperOrder contract, for agents with a portfolio
ValidOrders ==
    [agent_id : Agents, asset : Assets, side : Sides,
     price : Prices, notional_eur : Notionals, reason : Reasons]

BaseOrders ==
    {o \in ValidOrders :
        o.agent_id = "a1" /\ o.asset = "BTC" /\ o.price = RInt(30000)
        /\ o.notional_eur = RInt(50)}

\* the same orders with one field off: a side in another spelling, a side
\* the ledger does not know, a zero or negative price, a zero or negative
\* notional, an agent without portfolio row
OddOrders ==
    UNION {{[o EXCEPT !.side = IF o.side = "BUY" THEN " buy" ELSE "sell "],
            [o EXCEPT !.side = "HOLD"],
            [o EXCEPT !.price = Zero],
            [o EXCEPT !.price = RInt(-30000)],
            [o EXCEPT !.notional_eur = Zero],
            [o EXCEPT !.notional_eur = RInt(-50)],
            [o EXCEPT !.agent_id = UnknownAgent]} : o \in BaseOrders}

PaperOrders == ValidOrders \cup OddOrders

----------------------------------------------------------------------------
(* State *)

VARIABLES
    portfolios,  \* committed table portfolios: agent_id -> row
    positions,   \* committed table positions: set of rows
    trades,      \* committed table trades: sequence of rows in id order
    conn,        \* what the ledger's connection sees (its open transaction)
    pc,          \* position of the execute_paper_order call in progress
    order,       \* the PaperOrder object of the current / last call
    requested,   \* order.notional_eur as the caller passed it
    fee_rate,    \* fee_rate argument of the current / last call
    loc,         \* local variables of the call in progress
    result,      \* outcome of the last call
    pre,         \* committed tables when the current / last call began
    calls,       \* number of calls made
    fills,       \* number of calls that returned status filled
    rd_pc,       \* position of a get_portfolio call on another connection
    rd_agent,    \* its agent_id argument
    rd_row,      \* its portfolio_row
    rd_positions,\* its positions_rows
    rd_call,     \* value of calls when it issued its first SELECT
    rd_trades,   \* rows returned by the last query on trades
    reads,       \* number of reads started on the other connection
    prev,        \* the call before the current one: its order, outcome, pre;
                 \* for initialize_database its arguments and the tables before
    clock,       \* UTC date of the wall clock, as a day number
    config,      \* the loaded configuration: execution and agent settings
    cycle,       \* run_single_cycle in progress: trade date, prices, agents
                 \* left (todo) and agents done (turns)
    events,      \* table events: sequence of appended events
    enforced,    \* last _enforce_daily_trade_requirement call and its outcome
    probe,       \* last scoring function applied: name, arguments, value
    agents       \* committed table agents: id -> row

rdvars == <<rd_pc, rd_agent, rd_row, rd_positions, rd_call, rd_trades, reads>>

\* state of the orchestrator and of the scoring probe
xvars == <<clock, config, cycle, events, enforced, probe, agents>>

vars == <<portfolios, positions, trades, conn, pc, order, requested, fee_rate, loc,
          result, pre, calls, fills, rd_pc, rd_agent, rd_row, rd_positions,
          rd_call, rd_trades, reads, prev, clock, config, cycle, events,
          enforced, probe, agents>>

Tables == [portfolios |-> portfolios, positions |-> positions, trades |-> trades]

NoLoc == [missing |-> "locals"]
NoOrder == [missing |-> "order"]
NoResult == [status |-> "none", reason |-> "none"]
NoPrev == [missing |-> "call"]
NoCycle == [missing |-> "cycle"]
NoEnforced == [missing |-> "enforcement"]
NoProbe == [missing |-> "probe"]
NoConfig == [missing |-> "config"]

\* _utc_now(): the model keeps the date part of the timestamp, the part the
\* orchestrator reads back with substr(created_at, 1, 10)
UtcNow == clock

----------------------------------------------------------------------------
(* get_portfolio.py: database after initialize_database *)

PortfolioRow(cash, initial) == [cash_balance |-> cash, initial_balance |-> initial]

InitialPortfolios ==
    [a \in Agents |-> PortfolioRow(RInt(STARTING_CAPITAL), RInt(STARTING_CAPITAL))]

\* a row of table agents
AgentRow(name, risk_profile, assets, timeframes, created_at, updated_at) ==
    [name |-> name, risk_profile |-> risk_profile, assets |-> assets,
     timeframes |-> timeframes, created_at |-> created_at, updated_at |-> updated_at]

\* table agents after initialize_database on the first day, every optional
\* key of the agents left out
InitialAgents == [a \in Agents |-> AgentRow(a, "balanced", <<>>, <<>>, 1, 1)]

Init ==
    /\ portfolios = InitialPortfolios
    /\ positions = {}
    /\ trades = <<>>
    /\ conn = [portfolios |-> InitialPortfolios, positions |-> {}, trades |-> <<>>]
    /\ pc = "done"
    /\ order = NoOrder
    /\ requested = Zero
    /\ fee_rate = Zero
    /\ loc = NoLoc
    /\ result = NoResult
    /\ pre = [portfolios |-> InitialPortfolios, positions |-> {}, trades |-> <<>>]
    /\ calls = 0
    /\ fills = 0
    /\ rd_pc = "idle"
    /\ rd_agent = UnknownAgent
    /\ rd_row = NoRow
    /\ rd_positions = {}
    /\ rd_call = 0
    /\ rd_trades = <<>>
    /\ reads = 0
    /\ prev = NoPrev
    /\ clock = 1
    /\ config = NoConfig
    /\ cycle = NoCycle
    /\ events = <<>>
    /\ enforced = NoEnforced
    /\ probe = NoProbe
    /\ agents = InitialAgents

----------------------------------------------------------------------------
(* paper_trade.py: helpers *)

\* order.side.upper().strip()
NormaliseSide(s) ==
    CASE s = "BUY" -> "BUY"
      [] s = "SELL" -> "SELL"
      [] s = " buy" -> "BUY"
      [] s = "sell " -> "SELL"
      [] OTHER -> s

PreconditionsHoldAnySide(o) ==
    /\ ~RLe(o.price, Zero)
    /\ ~RLe(o.notional_eur, Zero)

\* the three checks before the connection is opened
PreconditionsHold(o) ==
    /\ NormaliseSide(o.side) \in {"BUY", "SELL"}
    /\ ~RLe(o.price, Zero)
    /\ ~RLe(o.notional_eur, Zero)

FetchPortfolio(c, agent_id) ==
    IF agent_id \in DOMAIN c.portfolios THEN c.portfolios[agent_id] ELSE NoRow

FetchPosition(c, agent_id, asset) ==
    LET rows == {r \in c.positions : r.agent_id = agent_id /\ r.asset = asset}
    IN  IF rows = {} THEN NoRow ELSE CHOOSE r \in rows : TRUE

UpsertPositionAddsRow(c, agent_id, asset, quantity, avg_price) ==
    [c EXCEPT !.positions =
        @ \cup {[agent_id |-> agent_id, asset |-> asset,
                 quantity |-> quantity, avg_price |-> avg_price]}]

\* INSERT ... ON CONFLICT(agent_id, asset) DO UPDATE
UpsertPosition(c, agent_id, asset, quantity, avg_price) ==
    [c EXCEPT !.positions =
        {r \in c.positions : ~(r.agent_id = agent_id /\ r.asset = asset)}
        \cup {[agent_id |-> agent_id, asset |-> asset,
               quantity |-> quantity, avg_price |-> avg_price]}]

DeletePositionKeepsRow(c, agent_id, asset) == c

\* DELETE FROM positions WHERE agent_id = ? AND asset = ?
DeletePosition(c, agent_id, asset) ==
    [c EXCEPT !.positions =
        {r \in c.positions : ~(r.agent_id = agent_id /\ r.asset = asset)}]

UpdateCashEveryAgent(c, agent_id, new_cash) ==
    [c EXCEPT !.portfolios = [a \in DOMAIN @ |-> [@[a] EXCEPT !.cash_balance = new_cash]]]

\* UPDATE portfolios SET cash_balance = ? WHERE agent_id = ?
UpdateCash(c, agent_id, new_cash) ==
    IF agent_id \in DOMAIN c.portfolios
    THEN [c EXCEPT !.portfolios[agent_id].cash_balance = new_cash]
    ELSE c

\* new_qty <= 1e-10, the threshold being 1 / (DUST_SCALE * DUST_SCALE)
IsDust(q) == q.n <= 0 \/ q.n <= (q.d \div DUST_SCALE) \div DUST_SCALE

\* fee = order.notional_eur * fee_rate
Fee(notional, rate) == RMul(notional, rate)

TotalCostWithoutFee(notional, fee) == notional

\* total_cost = order.notional_eur + fee
TotalCost(notional, fee) == RAdd(notional, fee)

\* if cash_balance < total_cost
InsufficientCash(cash_balance, total_cost) == RLt(cash_balance, total_cost)

\* bought_qty = order.notional_eur / order.price
BoughtQty(notional, price) == RDiv(notional, price)

NewAvgPriceLastPrice(quantity, avg_price, bought_qty, price) == price

\* ((quantity * avg_price) + (bought_qty * price)) / new_qty if quantity else price
NewAvgPrice(quantity, avg_price, bought_qty, price) ==
    IF quantity # Zero
    THEN RDiv(RAdd(RMul(quantity, avg_price), RMul(bought_qty, price)),
              RAdd(quantity, bought_qty))
    ELSE price

NoPositionOnlyIfNegative(quantity) == RLt(quantity, Zero)

\* if quantity <= 0
NoPosition(quantity) == RLe(quantity, Zero)

SellNotionalUncapped(notional, quantity, price) == notional

\* sell_notional = min(order.notional_eur, quantity * order.price)
SellNotional(notional, quantity, price) == RMin(notional, RMul(quantity, price))

\* proceeds = sell_notional - fee, with fee = sell_notional * fee_rate
Proceeds(sell_notional, rate) == RSub(sell_notional, Fee(sell_notional, rate))

SellAvgPriceFromOrder(avg_price, price) == price

\* avg_price argument of the upsert after a partial sell
SellAvgPrice(avg_price, price) == avg_price

TradeRowWithoutFee(o, side, traded_qty, fee) ==
    [agent_id |-> o.agent_id, asset |-> o.asset, side |-> side,
     quantity |-> traded_qty, price |-> o.price, notional |-> o.notional_eur,
     fee |-> Zero, reason |-> o.reason, created_at |-> UtcNow]

\* the row of INSERT INTO trades
TradeRow(o, side, traded_qty, fee) ==
    [agent_id |-> o.agent_id, asset |-> o.asset, side |-> side,
     quantity |-> traded_qty, price |-> o.price, notional |-> o.notional_eur,
     fee |-> fee, reason |-> o.reason, created_at |-> UtcNow]

OtherConnectionsSeeWrites(committed, c) == c

\* cursor.execute("BEGIN"): until the commit the writes stay inside the
\* transaction and other connections read the committed tables
OtherConnectionsSee(committed, c) == committed

RollbackKeepsWrites(committed, c) == c

\* conn.rollback(): the database keeps the committed tables
Rollback(committed, c) == committed

\* conn.commit(): the connection's tables become the committed ones
CommitTables(committed, c) == c

Returned(status, reason) == [status |-> status, reason |-> reason]

\* locals of a BUY that passed the cash check
BuyLocals(o, rate, cash_balance, quantity, avg_price) ==
    LET fee == Fee(o.notional_eur, rate)
        bought_qty == BoughtQty(o.notional_eur, o.price)
    IN  [cash_balance |-> cash_balance, quantity |-> quantity,
         avg_price |-> avg_price, fee |-> fee, traded_qty |-> bought_qty,
         new_qty |-> RAdd(quantity, bought_qty),
         new_avg_price |-> NewAvgPrice(quantity, avg_price, bought_qty, o.price),
         new_cash |-> RSub(cash_balance, TotalCost(o.notional_eur, fee)),
         sell_notional |-> o.notional_eur]

\* locals of a SELL that passed the position check
SellLocals(o, rate, cash_balance, quantity, avg_price) ==
    LET sell_notional == SellNotional(o.notional_eur, quantity, o.price)
        traded_qty == RDiv(sell_notional, o.price)
    IN  [cash_balance |-> cash_balance, quantity |-> quantity,
         avg_price |-> avg_price, fee |-> Fee(sell_notional, rate),
         traded_qty |-> traded_qty,
         new_qty |-> RSub(quantity, traded_qty),
         new_avg_price |-> SellAvgPrice(avg_price, o.price),
         new_cash |-> RAdd(cash_balance, Proceeds(sell_notional, rate)),
         sell_notional |-> sell_notional]

----------------------------------------------------------------------------
(* paper_trade.py: execute_paper_order, one action per statement group *)

\* the call leaves through return or raise; finally: conn.close()
Leave(res, after) ==
    /\ portfolios' = after.portfolios
    /\ positions' = after.positions
    /\ trades' = after.trades
    /\ conn' = after
    /\ result' = res
    /\ loc' = NoLoc
    /\ pc' = "done"

\* entry: the three precondition checks, sqlite3.connect, BEGIN
Call(o, rate) ==
    /\ UNCHANGED <<rdvars, xvars>>
    /\ pc = "done"
    /\ calls < MaxCalls
    /\ calls' = calls + 1
    /\ order' = o
    /\ requested' = o.notional_eur
    /\ fee_rate' = rate
    /\ pre' = Tables
    /\ fills' = fills
    /\ IF PreconditionsHold(o)
       THEN /\ pc' = "begun"
            /\ conn' = Tables
            /\ result' = NoResult
            /\ UNCHANGED <<portfolios, positions, trades, loc>>
       ELSE Leave(Returned("raised", "ValueError"), Tables)

\* _fetch_portfolio, _fetch_position, the cash / position checks, the arithmetic
Evaluate ==
    /\ UNCHANGED <<rdvars, xvars, prev>>
    /\ pc = "begun"
    /\ LET portfolio == FetchPortfolio(conn, order.agent_id)
           position == FetchPosition(conn, order.agent_id, order.asset)
           cash_balance == portfolio.cash_balance
           quantity == IF position # NoRow THEN position.quantity ELSE Zero
           avg_price == IF position # NoRow THEN position.avg_price ELSE Zero
           side == NormaliseSide(order.side)
           buy == BuyLocals(order, fee_rate, cash_balance, quantity, avg_price)
           sell == SellLocals(order, fee_rate, cash_balance, quantity, avg_price)
       IN  IF portfolio = NoRow
           THEN /\ Leave(Returned("raised", "ValueError"), Rollback(Tables, conn))
                /\ UNCHANGED <<order, requested, fee_rate, pre, calls, fills>>
           ELSE IF side = "BUY"
           THEN IF InsufficientCash(cash_balance,
                                    TotalCost(order.notional_eur,
                                              Fee(order.notional_eur, fee_rate)))
                THEN /\ Leave(Returned("rejected", "insufficient_cash"),
                              Rollback(Tables, conn))
                     /\ UNCHANGED <<order, requested, fee_rate, pre, calls, fills>>
                ELSE IF RLe(buy.new_qty, Zero)
                THEN /\ Leave(Returned("raised", "ValueError"), Rollback(Tables, conn))
                     /\ UNCHANGED <<order, requested, fee_rate, pre, calls, fills>>
                ELSE /\ loc' = buy
                     /\ pc' = "computed"
                     /\ UNCHANGED <<portfolios, positions, trades, conn, order,
                                    requested, fee_rate, result, pre, calls,
                                    fills>>
           ELSE IF NoPosition(quantity)
                THEN /\ Leave(Returned("rejected", "no_position"),
                              Rollback(Tables, conn))
                     /\ UNCHANGED <<order, requested, fee_rate, pre, calls, fills>>
                ELSE /\ loc' = sell
                     /\ pc' = "computed"
                     /\ UNCHANGED <<portfolios, positions, trades, conn, order,
                                    requested, fee_rate, result, pre, calls,
                                    fills>>

\* a write statement inside the transaction changes the connection's tables;
\* what other connections read is decided by OtherConnectionsSee
Write(c) ==
    /\ conn' = c
    /\ portfolios' = OtherConnectionsSee(Tables, c).portfolios
    /\ positions' = OtherConnectionsSee(Tables, c).positions
    /\ trades' = OtherConnectionsSee(Tables, c).trades

\* _upsert_position (BUY, partial SELL) or _delete_position (SELL down to dust)
WritePosition ==
    /\ UNCHANGED <<rdvars, xvars, prev>>
    /\ pc = "computed"
    /\ Write(IF NormaliseSide(order.side) = "SELL" /\ IsDust(loc.new_qty)
             THEN DeletePosition(conn, order.agent_id, order.asset)
             ELSE UpsertPosition(conn, order.agent_id, order.asset,
                                 loc.new_qty, loc.new_avg_price))
    /\ pc' = "position_written"
    /\ UNCHANGED <<order, requested, fee_rate, loc, result, pre, calls, fills>>

WriteCashKeepsRequested ==
    /\ UNCHANGED <<rdvars, xvars, prev>>
    /\ pc = "position_written"
    /\ Write(UpdateCash(conn, order.agent_id, loc.new_cash))
    /\ pc' = "cash_written"
    /\ UNCHANGED <<order, requested, fee_rate, loc, result, pre, calls, fills>>

\* _update_cash; a SELL then overwrites order.notional_eur with sell_notional
WriteCash ==
    /\ UNCHANGED <<rdvars, xvars, prev>>
    /\ pc = "position_written"
    /\ Write(UpdateCash(conn, order.agent_id, loc.new_cash))
    /\ order' = IF NormaliseSide(order.side) = "SELL"
                THEN [order EXCEPT !.notional_eur = loc.sell_notional]
                ELSE order
    /\ pc' = "cash_written"
    /\ UNCHANGED <<requested, fee_rate, loc, result, pre, calls, fills>>

\* INSERT INTO trades
InsertTrade ==
    /\ UNCHANGED <<rdvars, xvars, prev>>
    /\ pc = "cash_written"
    /\ Write([conn EXCEPT !.trades =
                Append(@, TradeRow(order, NormaliseSide(order.side),
                                   loc.traded_qty, loc.fee))])
    /\ pc' = "trade_inserted"
    /\ UNCHANGED <<order, requested, fee_rate, loc, result, pre, calls, fills>>

\* conn.commit() and return of the filled result
Commit ==
    /\ UNCHANGED <<rdvars, xvars, prev>>
    /\ pc = "trade_inserted"
    /\ Leave(Returned("filled", "none"), CommitTables(Tables, conn))
    /\ fills' = fills + 1
    /\ UNCHANGED <<order, requested, fee_rate, pre, calls>>

\* an exception raised by a write statement or by the commit (the position
\* write, the cash write, the trade insert, conn.commit()):
\* except Exception: conn.rollback(); raise.  The reason records where.
Fault ==
    /\ UNCHANGED <<rdvars, xvars, prev>>
    /\ pc \in {"computed", "position_written", "cash_written", "trade_inserted"}
    /\ Leave(Returned("raised", pc), Rollback(Tables, conn))
    /\ UNCHANGED <<order, requested, fee_rate, pre, calls, fills>>

Next ==
    \/ \E o \in PaperOrders, rate \in FeeRates : Call(o, rate) /\ UNCHANGED prev
    \/ Evaluate
    \/ WritePosition
    \/ WriteCash
    \/ InsertTrade
    \/ Commit
    \/ Fault

Spec == Init /\ [][Next]_vars

----------------------------------------------------------------------------
(* paper_trade.py: execute_paper_order as one call, for its callers *)

\* the tables, the result and the order object a whole call leaves behind when
\* no statement faults: the same checks and writes as the actions above;
\* first the writes of a call that fills, l being the locals of its side
Fill(t, o, side, l) ==
    LET sold == IF side = "SELL" THEN [o EXCEPT !.notional_eur = l.sell_notional]
                ELSE o
        w1 == IF side = "SELL" /\ IsDust(l.new_qty)
              THEN DeletePosition(t, o.agent_id, o.asset)
              ELSE UpsertPosition(t, o.agent_id, o.asset, l.new_qty, l.new_avg_price)
        w2 == UpdateCash(w1, o.agent_id, l.new_cash)
        w3 == [w2 EXCEPT !.trades = Append(@, TradeRow(sold, side, l.traded_qty, l.fee))]
    IN  [result |-> Returned("filled", "none"), tables |-> CommitTables(t, w3),
         order |-> sold]

\* the checks after the rows were fetched, l being the locals of the side
Outcome(t, o, rate, side, cash_balance, quantity, l) ==
    LET out(res) == [result |-> res, tables |-> Rollback(t, t), order |-> o]
    IN  IF side = "BUY" /\ InsufficientCash(cash_balance,
                               TotalCost(o.notional_eur, Fee(o.notional_eur, rate)))
        THEN out(Returned("rejected", "insufficient_cash"))
        ELSE IF side = "BUY" /\ RLe(l.new_qty, Zero)
        THEN out(Returned("raised", "ValueError"))
        ELSE IF side = "SELL" /\ NoPosition(quantity)
        THEN out(Returned("rejected", "no_position"))
        ELSE Fill(t, o, side, l)

ExecutePaperOrder(t, o, rate) ==
    LET side == NormaliseSide(o.side)
        portfolio == FetchPortfolio(t, o.agent_id)
        position == FetchPosition(t, o.agent_id, o.asset)
        cash_balance == portfolio.cash_balance
        quantity == IF position # NoRow THEN position.quantity ELSE Zero
        avg_price == IF position # NoRow THEN position.avg_price ELSE Zero
    IN  IF ~PreconditionsHold(o) \/ portfolio = NoRow
        THEN [result |-> Returned("raised", "ValueError"), tables |-> t, order |-> o]
        ELSE Outcome(t, o, rate, side, cash_balance, quantity,
                     IF side = "BUY"
                     THEN BuyLocals(o, rate, cash_balance, quantity, avg_price)
                     ELSE SellLocals(o, rate, cash_balance, quantity, avg_price))

InitialTables ==
    [portfolios |-> InitialPortfolios, positions |-> {}, trades |-> <<>>]

\* the tables after the given orders were executed in turn, without fee, on
\* a freshly initialised database
RECURSIVE LedgerAfter(_)
LedgerAfter(orders) ==
    IF orders = <<>> THEN InitialTables
    ELSE ExecutePaperOrder(LedgerAfter(SubSeq(orders, 1, Len(orders) - 1)),
                           orders[Len(orders)], Zero).tables

\* the ledger call and the reader at rest
AtRest(t) ==
    /\ portfolios = t.portfolios
    /\ positions = t.positions
    /\ trades = t.trades
    /\ conn = t
    /\ pc = "done"
    /\ order = NoOrder
    /\ requested = Zero
    /\ fee_rate = Zero
    /\ loc = NoLoc
    /\ result = NoResult
    /\ pre = t
    /\ calls = 0
    /\ fills = Len(t.trades)
    /\ rd_pc = "idle"
    /\ rd_agent = UnknownAgent
    /\ rd_row = NoRow
    /\ rd_positions = {}
    /\ rd_call = 0
    /\ rd_trades = <<>>
    /\ reads = 0

----------------------------------------------------------------------------
(* Consecutive calls on one (agent, asset): a BUY and the SELL after it *)

TripOrder(side, price, notional) ==
    [agent_id |-> "a1", asset |-> "BTC", side |-> side, price |-> price,
     notional_eur |-> notional, reason |-> "strategy_signal"]

TripNotionals == {RInt(25), RInt(50)}
TripFeeRates == {Zero, Rat(1, 1000)}
TripOrders == {TripOrder(sd, pr, n) : sd \in Sides, pr \in Prices, n \in TripNotionals}

\* earlier fills the first call may find: none, or one BUY at the lower price
TripHistories == {<<>>, <<TripOrder("BUY", RInt(30000), RInt(50))>>}

InitTrip ==
    /\ clock = 1
    /\ \E h \in TripHistories : AtRest(LedgerAfter(h))
    /\ prev = NoPrev
    /\ config = NoConfig
    /\ cycle = NoCycle
    /\ events = <<>>
    /\ enforced = NoEnforced
    /\ probe = NoProbe
    /\ agents = InitialAgents

\* what the caller knows of the call it made before the one it is making now
Remember ==
    prev' = [order |-> order, requested |-> requested, fee_rate |-> fee_rate,
             result |-> result, pre |-> pre]

NextTrip ==
    \/ \E o \in TripOrders, rate \in TripFeeRates : Call(o, rate) /\ Remember
    \/ Evaluate
    \/ WritePosition
    \/ WriteCash
    \/ InsertTrade
    \/ Commit
    \/ Fault

SpecTrip == InitTrip /\ [][NextTrip]_vars

----------------------------------------------------------------------------
(* scoring.py: arithmetic on lists of closes *)

MaxCandles == 31
SQRT_SCALE == 100

REGIME_MIN_CLOSES == 30
MEAN_REVERSION_MIN_CLOSES == 20
TREND_FOLLOW_MIN_CLOSES == 30
BREAKOUT_MIN_CLOSES == 25

RNeg(x) == [n |-> -x.n, d |-> x.d]
RAbs(x) == [n |-> Abs(x.n), d |-> x.d]
RMax(x, y) == IF RLe(x, y) THEN y ELSE x

\* sum(values), the loop with its running total; the test on the total makes
\* every step finish before the next one starts
RECURSIVE SumFrom(_, _, _)
SumFrom(values, total, i) ==
    IF i > Len(values) THEN total
    ELSE LET next == RAdd(total, values[i])
         IN  IF next.d > 0 THEN SumFrom(values, next, i + 1) ELSE next

RSum(values) == SumFrom(values, Zero, 1)

\* values[-k:]
LastK(values, k) ==
    IF Len(values) <= k THEN values
    ELSE SubSeq(values, Len(values) - k + 1, Len(values))

\* values[-k]
FromEnd(values, k) == values[Len(values) - k + 1]

ClampLowerOnly(value, lower, upper) == RMax(lower, value)

\* _clamp: max(lower, min(upper, value))
Clamp(value, lower, upper) == RMax(lower, RMin(upper, value))

\* round(value, places): the nearest multiple of 10^-places, ties to even
RoundTo(x, scale) ==
    LET num == x.n * scale
        q == num \div x.d
        r == num - q * x.d
        k == IF 2 * r < x.d THEN q
             ELSE IF 2 * r > x.d THEN q + 1
             ELSE IF q % 2 = 0 THEN q ELSE q + 1
    IN  Rat(k, scale)

\* math.sqrt on the grid of 1 / SQRT_SCALE: the largest grid value whose
\* square does not exceed x
RSqrt(x) ==
    LET fits(k) == k * k * x.d <= x.n * SQRT_SCALE * SQRT_SCALE
        k == CHOOSE j \in 0..(16 * SQRT_SCALE) : fits(j) /\ ~fits(j + 1)
    IN  Rat(k, SQRT_SCALE)

\* _extract_closes: candles without a "close" key are skipped
ExtractCloses(candles) ==
    LET kept == SelectSeq(candles, LAMBDA c : "close" \in DOMAIN c)
    IN  [i \in 1..Len(kept) |-> kept[i].close]

\* _returns
ReturnsOf(values) ==
    [i \in 1..(IF Len(values) = 0 THEN 0 ELSE Len(values) - 1) |->
        IF values[i] = Zero THEN Zero
        ELSE RDiv(RSub(values[i + 1], values[i]), values[i])]

\* _ema: the loop over values[1:] with its running average
RECURSIVE EmaFrom(_, _, _, _)
EmaFrom(values, alpha, ema, i) ==
    IF i > Len(values) THEN ema
    ELSE LET next == RAdd(RMul(values[i], alpha), RMul(ema, RSub(RInt(1), alpha)))
         IN  IF next.d > 0 THEN EmaFrom(values, alpha, next, i + 1) ELSE next

Ema(values, period) ==
    IF Len(values) = 0 THEN Zero
    ELSE EmaFrom(values, Rat(2, period + 1), values[1], 2)

\* _rsi
Rsi(values, period) ==
    IF Len(values) <= period THEN RInt(50)
    ELSE LET delta(i) == RSub(FromEnd(values, i), FromEnd(values, i + 1))
             gains == [i \in 1..period |->
                          IF RLe(Zero, delta(i)) THEN delta(i) ELSE Zero]
             losses == [i \in 1..period |->
                          IF RLe(Zero, delta(i)) THEN Zero ELSE RAbs(delta(i))]
             avg_gain == RDiv(RSum(gains), RInt(period))
             avg_loss == RDiv(RSum(losses), RInt(period))
         IN  IF avg_loss = Zero THEN RInt(100)
             ELSE RSub(RInt(100),
                       RDiv(RInt(100), RAdd(RInt(1), RDiv(avg_gain, avg_loss))))

\* the variance inside _stdev
Variance(values) ==
    IF Len(values) = 0 THEN Zero
    ELSE LET mean == RDiv(RSum(values), RInt(Len(values)))
             sq == [i \in 1..Len(values) |->
                      RMul(RSub(values[i], mean), RSub(values[i], mean))]
         IN  RDiv(RSum(sq), RInt(Len(values)))

\* _stdev
Stdev(values) == RSqrt(Variance(values))

TooShortByOne(closes, minimum) == Len(closes) < minimum - 1

\* if len(closes) < minimum
TooShort(closes, minimum) == Len(closes) < minimum

Raised(exception) == [raised |-> exception]

----------------------------------------------------------------------------
(* scoring.py: the regime classifier, the scorers, the combiner, the rule *)

NeutralRegime ==
    [regime |-> "ranging", volatility_state |-> "normal",
     momentum |-> Zero, confidence |-> Zero]

\* the dict detect_market_regime returns for a history that is long enough
RegimeOf(momentum, trend_gap, volatility_squared) ==
    [regime |-> IF RLt(Rat(12, 1000), trend_gap) \/ RLt(Rat(3, 100), RAbs(momentum))
                THEN "trending" ELSE "ranging",
     volatility_state |-> IF RLt(Rat(36, 10000), volatility_squared)
                          THEN "high_volatility" ELSE "normal",
     momentum |-> momentum,
     confidence |-> RMax(Zero,
                         RMin(RInt(1),
                              RAdd(RMul(trend_gap, RInt(30)),
                                   RMul(RAbs(momentum), RInt(4)))))]

\* detect_market_regime.  volatility = _stdev(returns[-30:]) * sqrt(30) is
\* compared with 0.06 through the squares: variance * 30 > 0.06 * 0.06
DetectMarketRegime(candles) ==
    LET closes == ExtractCloses(candles)
        returns == ReturnsOf(closes)
        ema_fast == Ema(closes, 12)
        ema_slow == Ema(closes, 26)
        last_close == FromEnd(closes, 1)
        momentum == IF FromEnd(closes, 20) # Zero
                    THEN RDiv(RSub(last_close, FromEnd(closes, 20)),
                              FromEnd(closes, 20))
                    ELSE Zero
        trend_gap == IF last_close # Zero
                     THEN RDiv(RAbs(RSub(ema_fast, ema_slow)), last_close)
                     ELSE Zero
        volatility_squared == RMul(Variance(LastK(returns, 30)), RInt(30))
    IN  IF TooShort(closes, REGIME_MIN_CLOSES) THEN NeutralRegime
        ELSE IF Len(closes) < 20 THEN Raised("IndexError")
        ELSE RegimeOf(momentum, trend_gap, volatility_squared)

\* score_mean_reversion
ScoreMeanReversion(candles) ==
    LET closes == ExtractCloses(candles)
        window == LastK(closes, 20)
        mean == RDiv(RSum(window), RInt(Len(window)))
        std == Stdev(window)
        zscore == RDiv(RSub(FromEnd(closes, 1), mean), std)
    IN  IF TooShort(closes, MEAN_REVERSION_MIN_CLOSES) THEN Zero
        ELSE IF Len(closes) < 1 THEN Raised("ZeroDivisionError")
        ELSE IF std = Zero THEN Zero
        ELSE Clamp(RDiv(RNeg(zscore), RInt(2)), RInt(-1), RInt(1))

\* the rsi_component of score_trend_follow
RsiComponent(rsi) ==
    IF RLt(RInt(55), rsi)
    THEN Clamp(RDiv(RSub(rsi, RInt(55)), RInt(20)), RInt(-1), RInt(1))
    ELSE IF RLt(rsi, RInt(45))
    THEN RNeg(Clamp(RDiv(RSub(RInt(45), rsi), RInt(20)), RInt(-1), RInt(1)))
    ELSE Zero

\* score_trend_follow
ScoreTrendFollow(candles) ==
    LET closes == ExtractCloses(candles)
        ema_fast == Ema(closes, 9)
        ema_slow == Ema(closes, 21)
        trend_component ==
            Clamp(RMul(RDiv(RSub(ema_fast, ema_slow), FromEnd(closes, 1)), RInt(20)),
                  RInt(-1), RInt(1))
        rsi_component == RsiComponent(Rsi(closes, 14))
    IN  IF TooShort(closes, TREND_FOLLOW_MIN_CLOSES) THEN Zero
        ELSE IF Len(closes) < 1 THEN Raised("IndexError")
        ELSE IF FromEnd(closes, 1) = Zero THEN Zero
        ELSE Clamp(RAdd(RMul(trend_component, Rat(7, 10)),
                         RMul(rsi_component, Rat(3, 10))),
                   RInt(-1), RInt(1))

\* max(values), min(values)
RECURSIVE MaxFrom(_, _, _)
MaxFrom(values, best, i) ==
    IF i > Len(values) THEN best
    ELSE LET next == IF RLt(best, values[i]) THEN values[i] ELSE best
         IN  IF next.d > 0 THEN MaxFrom(values, next, i + 1) ELSE next

MaxOf(values) == MaxFrom(values, values[1], 2)

RECURSIVE MinFrom(_, _, _)
MinFrom(values, best, i) ==
    IF i > Len(values) THEN best
    ELSE LET next == IF RLt(values[i], best) THEN values[i] ELSE best
         IN  IF next.d > 0 THEN MinFrom(values, next, i + 1) ELSE next

MinOf(values) == MinFrom(values, values[1], 2)

\* score_breakout_confirmation; recent = closes[-21:-1]
ScoreBreakoutConfirmation(candles) ==
    LET closes == ExtractCloses(candles)
        recent == LastK(SubSeq(closes, 1, Len(closes) - 1), 20)
        recent_high == MaxOf(recent)
        recent_low == MinOf(recent)
        close == FromEnd(closes, 1)
        center == RDiv(RAdd(recent_high, recent_low), RInt(2))
    IN  IF TooShort(closes, BREAKOUT_MIN_CLOSES) THEN Zero
        ELSE IF Len(recent) = 0 THEN Zero
        ELSE IF RLt(recent_high, close)
        THEN Clamp(RAdd(Rat(6, 10),
                         RMul(IF recent_high # Zero
                              THEN RDiv(RSub(close, recent_high), recent_high)
                              ELSE Zero, RInt(20))),
                   RInt(-1), RInt(1))
        ELSE IF RLt(close, recent_low)
        THEN Clamp(RSub(Rat(-6, 10),
                        RMul(IF recent_low # Zero
                             THEN RDiv(RSub(recent_low, close), recent_low)
                             ELSE Zero, RInt(20))),
                   RInt(-1), RInt(1))
        ELSE IF center = Zero THEN Zero
        ELSE Clamp(RDiv(RSub(close, center), center), Rat(-1, 4), Rat(1, 4))

\* score_sentiment_filter
ScoreSentimentFilter(sentiment_score) == Clamp(sentiment_score, RInt(-1), RInt(1))

\* dict.get(key, default)
Get(dict, key, default) == IF key \in DOMAIN dict THEN dict[key] ELSE default

\* the weights dict after the regime adjustment
Weights(regime) ==
    [name \in {"mean_reversion", "trend_follow", "breakout_confirmation",
               "sentiment_filter"} |->
        CASE name = "mean_reversion" ->
               IF regime = "trending" THEN Rat(6, 10) ELSE Rat(12, 10)
          [] name = "trend_follow" ->
               IF regime = "trending" THEN Rat(13, 10) ELSE Rat(8, 10)
          [] name = "breakout_confirmation" -> Rat(9, 10)
          [] name = "sentiment_filter" -> Rat(6, 10)]

\* the strategy_scores dict: one entry per distinct name of the list
StrategyScores(candles, strategies, sentiment_score) ==
    [name \in {strategies[i] : i \in DOMAIN strategies} |->
        CASE name = "mean_reversion" -> ScoreMeanReversion(candles)
          [] name = "trend_follow" -> ScoreTrendFollow(candles)
          [] name = "breakout_confirmation" -> ScoreBreakoutConfirmation(candles)
          [] name = "sentiment_filter" -> ScoreSentimentFilter(sentiment_score)
          [] OTHER -> Zero]

\* sum(f[name] for name in f)
RECURSIVE SumOver(_)
SumOver(f) ==
    IF DOMAIN f = {} THEN Zero
    ELSE LET name == CHOOSE k \in DOMAIN f : TRUE
         IN  RAdd(f[name], SumOver([k \in DOMAIN f \ {name} |-> f[k]]))

\* the weighted combination of the strategy scores
CombineScores(strategy_scores, weights, regime_info) ==
    LET names == DOMAIN strategy_scores
        weight_sum == SumOver([k \in names |-> RAbs(Get(weights, k, RInt(1)))])
        total_weight == IF weight_sum = Zero THEN RInt(1) ELSE weight_sum
        weighted_sum ==
            SumOver([k \in names |-> RMul(strategy_scores[k], Get(weights, k, RInt(1)))])
        combined == RDiv(weighted_sum, total_weight)
    IN  IF Get(regime_info, "volatility_state", "none") = "high_volatility"
        THEN RMul(combined, Rat(85, 100)) ELSE combined

TradeOpportunity(strategy_scores, total, regime_info) ==
    [strategy_scores |-> strategy_scores,
     total_score |-> RoundTo(Clamp(total, RInt(-1), RInt(1)), 10000),
     regime |-> Get(regime_info, "regime", "ranging"),
     volatility_state |-> Get(regime_info, "volatility_state", "normal")]

ScoreTradeOpportunityOf(strategy_scores, regime_info) ==
    TradeOpportunity(strategy_scores,
                     CombineScores(strategy_scores,
                                   Weights(Get(regime_info, "regime", "ranging")),
                                   regime_info),
                     regime_info)

\* score_trade_opportunity
ScoreTradeOpportunity(candles, strategies, regime_info, sentiment_score) ==
    ScoreTradeOpportunityOf(StrategyScores(candles, strategies, sentiment_score),
                            regime_info)

DecisionFromScoreStrict(score, buy_threshold, sell_threshold) ==
    IF RLt(buy_threshold, score) THEN "BUY"
    ELSE IF RLt(score, sell_threshold) THEN "SELL"
    ELSE "HOLD"

\* decision_from_score
DecisionFromScore(score, buy_threshold, sell_threshold) ==
    IF RLe(buy_threshold, score) THEN "BUY"
    ELSE IF RLe(score, sell_threshold) THEN "SELL"
    ELSE "HOLD"

----------------------------------------------------------------------------
(* scoring.py: the functions applied to bounded inputs *)

LowClose == RInt(100)
HighClose == RInt(110)

Shapes == {"flat", "jump", "drop", "zigzag", "gaps"}

\* a candle list of the given length: constant closes, a last close above or
\* below a constant history, alternating closes, or constant closes with
\* every third candle lacking its close
Candles(shape, length) ==
    [i \in 1..length |->
        CASE shape = "flat" -> [close |-> LowClose]
          [] shape = "jump" ->
               [close |-> IF i = length THEN HighClose ELSE LowClose]
          [] shape = "drop" ->
               [close |-> IF i = length THEN LowClose ELSE HighClose]
          [] shape = "zigzag" ->
               [close |-> IF i % 2 = 0 THEN HighClose ELSE LowClose]
          [] shape = "gaps" ->
               IF i % 3 = 0 THEN [open |-> LowClose] ELSE [close |-> LowClose]]

CandleLists == {Candles(sh, len) : sh \in Shapes, len \in 0..MaxCandles}

\* lists whose moving averages stay within the integer range
SmoothCandleLists ==
    {Candles(sh, len) : sh \in Shapes \ {"zigzag"}, len \in 0..MaxCandles}

Scores == {RInt(-1), Rat(-31, 100), Rat(-3, 10), Zero, Rat(3, 10), Rat(35, 100),
           RInt(1)}
Thresholds == {Rat(-3, 10), Zero, Rat(3, 10), Rat(1, 2)}

StrategyLists ==
    {<<>>,
     <<"mean_reversion">>,
     <<"trend_follow">>,
     <<"breakout_confirmation">>,
     <<"sentiment_filter">>,
     <<"mean_reversion", "trend_follow", "breakout_confirmation", "sentiment_filter">>,
     <<"trend_follow", "trend_follow">>,
     <<"momentum_chaser">>,
     <<"sentiment_filter", "momentum_chaser">>,
     <<"breakout_confirmation", "sentiment_filter", "breakout_confirmation">>}

RegimeInfos ==
    {[regime |-> r, volatility_state |-> v] :
        r \in {"trending", "ranging"}, v \in {"normal", "high_volatility"}}
    \cup {[regime |-> "trending"], [volatility_state |-> "high_volatility"], <<>>}

Sentiments == {RInt(-2), Rat(-1, 2), Zero, RInt(1), RInt(2)}

TradeCandleLists == {Candles(sh, len) : sh \in {"flat", "jump", "drop"}, len \in {0, 24, 25, 31}}

Pending(fn, args) == [fn |-> fn, args |-> args, applied |-> FALSE, value |-> NoProbe]

ProbeInputs ==
    {Pending("decision_from_score", <<sc, b, sl>>) :
        sc \in Scores, b \in Thresholds, sl \in Thresholds}
    \cup {Pending("score_trade_opportunity", <<c, st, ri, se>>) :
        c \in TradeCandleLists, st \in StrategyLists, ri \in RegimeInfos,
        se \in Sentiments}
    \cup {Pending("detect_market_regime", <<c>>) : c \in SmoothCandleLists}
    \cup {Pending("score_mean_reversion", <<c>>) : c \in CandleLists}
    \cup {Pending("score_trend_follow", <<c>>) : c \in SmoothCandleLists}
    \cup {Pending("score_breakout_confirmation", <<c>>) : c \in CandleLists}

InitScore ==
    /\ clock = 1
    /\ AtRest(InitialTables)
    /\ prev = NoPrev
    /\ config = NoConfig
    /\ cycle = NoCycle
    /\ events = <<>>
    /\ enforced = NoEnforced
    /\ probe \in ProbeInputs
    /\ agents = InitialAgents

\* the pending function is called and its value kept
Apply(fn, value) ==
    /\ probe.fn = fn
    /\ ~probe.applied
    /\ probe' = [probe EXCEPT !.applied = TRUE, !.value = value]
    /\ UNCHANGED <<portfolios, positions, trades, conn, pc, order, requested,
                   fee_rate, loc, result, pre, calls, fills, rdvars, prev, clock,
                   config, cycle, events, enforced, agents>>

ApplyDecisionFromScore ==
    Apply("decision_from_score",
          DecisionFromScore(probe.args[1], probe.args[2], probe.args[3]))

ApplyScoreTradeOpportunity ==
    Apply("score_trade_opportunity",
          ScoreTradeOpportunity(probe.args[1], probe.args[2], probe.args[3],
                                probe.args[4]))

ApplyDetectMarketRegime ==
    Apply("detect_market_regime", DetectMarketRegime(probe.args[1]))

ApplyScoreMeanReversion ==
    Apply("score_mean_reversion", ScoreMeanReversion(probe.args[1]))

ApplyScoreTrendFollow ==
    Apply("score_trend_follow", ScoreTrendFollow(probe.args[1]))

ApplyScoreBreakoutConfirmation ==
    Apply("score_breakout_confirmation", ScoreBreakoutConfirmation(probe.args[1]))

NextScore ==
    \/ ApplyDecisionFromScore
    \/ ApplyScoreTradeOpportunity
    \/ ApplyDetectMarketRegime
    \/ ApplyScoreMeanReversion
    \/ ApplyScoreTrendFollow
    \/ ApplyScoreBreakoutConfirmation

SpecScore == InitScore /\ [][NextScore]_vars

----------------------------------------------------------------------------
(* orchestrator.py: configuration, market data, portfolio snapshots *)

MaxCycles == 2
MaxDate == 2

\* round(value, 8) keeps 8 decimal places; the model's integers are 32 bits
\* wide, so its amounts are kept on a grid of 1 / MoneyGrid
MoneyGrid == 100

MINIMUM_ORDER == 5
DEFAULT_FEE_RATE == Rat(1, 1000)
DEFAULT_MAX_POSITION_PCT == Rat(2, 10)
DEFAULT_CASH_BUFFER_PCT == Rat(1, 10)
DEFAULT_BUY_THRESHOLD == Rat(3, 10)
DEFAULT_SELL_THRESHOLD == Rat(-3, 10)

None == [is |-> "None"]
NoPlan == [missing |-> "plan"]

\* ORDER BY asset
AssetOrder == <<"BTC", "ETH", "SOL">>

RoundMoney(x) == RoundTo(x, MoneyGrid)

\* _utc_date()
UtcDate == clock

\* reason of the enforcer's order: f"mandatory_daily_trade|date={trade_date}"
MandatoryReason(trade_date) ==
    CASE trade_date = 1 -> "mandatory_daily_trade|date=1"
      [] trade_date = 2 -> "mandatory_daily_trade|date=2"
      [] trade_date = 3 -> "mandatory_daily_trade|date=3"
      [] OTHER -> "mandatory_daily_trade|date=later"

MandatoryReasons == {MandatoryReason(d) : d \in 1..4}

\* reason of an order of the main loop: strategies and regime
OrganicReason == "trend_follow,mean_reversion|regime=ranging"

\* {**f, **g}
Merge(f, g) == [k \in DOMAIN f \cup DOMAIN g |-> IF k \in DOMAIN g THEN g[k] ELSE f[k]]

AgentConfig(id, force, asset, side, notional) ==
    [id |-> id, assets |-> <<"BTC", "ETH">>, force_daily_trade |-> force,
     daily_trade_asset |-> asset, daily_trade_side |-> side,
     daily_trade_notional_eur |-> notional]

\* the keys an agent may set on top of AgentConfig: none, or no cash buffer
Overrides == {<<>>, [cash_buffer_pct |-> Zero]}

\* configurations: the first agent is forced to trade daily, on either side,
\* with a small or a large notional, in an asset of its list or outside it,
\* with the default cash buffer or none; the second agent follows ETH only
\* and sets force_daily_trade or not, leaving every other key to its default
Configs ==
    {[fee_rate |-> DEFAULT_FEE_RATE, minimum_order |-> RInt(MINIMUM_ORDER),
      agents |-> <<Merge(AgentConfig("a1", TRUE, asset, side, notional), keys),
                   [id |-> "a2", assets |-> <<"ETH">>, force_daily_trade |-> opts]>>] :
        asset \in {"BTC", "SOL"}, side \in Sides,
        notional \in {RInt(10), RInt(100)}, opts \in BOOLEAN, keys \in Overrides}

PriceMap(btc) == [a \in {"BTC", "ETH", "SOL"} |->
                    CASE a = "BTC" -> btc [] a = "ETH" -> RInt(2000) [] a = "SOL" -> RInt(100)]
OnlyEth == [a \in {"ETH"} |-> RInt(2000)]

\* what the market data sources return during one cycle: the snapshot's last
\* prices and the latest close of the candles, an asset being absent when its
\* source has no data
Markets ==
    {[snapshot |-> PriceMap(RInt(60000)), candles |-> PriceMap(RInt(60000))],
     [snapshot |-> PriceMap(RInt(30000)), candles |-> PriceMap(RInt(30000))],
     [snapshot |-> OnlyEth, candles |-> OnlyEth],
     [snapshot |-> OnlyEth, candles |-> PriceMap(RInt(60000))]}

\* total_score of each asset of an agent in one cycle: BTC scores -1, 0 or 1,
\* the other assets 0
ScoreMaps ==
    {[a \in assets |-> IF a = "BTC" THEN sc ELSE Zero] :
        assets \in {{"BTC", "ETH"}, {"ETH"}}, sc \in {RInt(-1), Zero, RInt(1)}}

\* get_portfolio, its two SELECTs taken together
GetPortfolio(t, agent_id, mark_prices) ==
    LET portfolio_row == FetchPortfolio(t, agent_id)
        held == SelectSeq(AssetOrder, LAMBDA a : FetchPosition(t, agent_id, a) # NoRow)
        item(a) ==
            LET row == FetchPosition(t, agent_id, a)
                market_price == Get(mark_prices, a, row.avg_price)
            IN  [asset |-> a, quantity |-> row.quantity, avg_price |-> row.avg_price,
                 market_price |-> market_price,
                 market_value_eur |-> RoundMoney(RMul(row.quantity, market_price))]
        items == [i \in 1..Len(held) |-> item(held[i])]
        position_value ==
            RSum([i \in 1..Len(held) |-> RMul(items[i].quantity, items[i].market_price)])
    IN  IF portfolio_row = NoRow THEN Raised("ValueError")
        ELSE [agent_id |-> agent_id,
              cash_balance |-> RoundMoney(portfolio_row.cash_balance),
              initial_balance |-> portfolio_row.initial_balance,
              equity |-> RoundMoney(RAdd(portfolio_row.cash_balance, position_value)),
              positions |-> items]

\* _find_position
FindPosition(portfolio, asset) ==
    LET found == SelectSeq(portfolio.positions, LAMBDA item : item.asset = asset)
    IN  IF Len(found) = 0 THEN None ELSE found[1]

ConvictionScaleNoFloor(conviction) == RMin(RInt(1), RAbs(conviction))

\* conviction_scale = max(0.25, min(1.0, abs(conviction)))
ConvictionScale(conviction) == RMax(Rat(1, 4), RMin(RInt(1), RAbs(conviction)))

ComputeBuyNotionalNoBuffer(agent, portfolio, conviction) ==
    LET position_cap ==
            RMul(portfolio.equity, Get(agent, "max_position_pct", DEFAULT_MAX_POSITION_PCT))
        target == RMul(position_cap, ConvictionScale(conviction))
        available_cash == RMax(Zero, portfolio.cash_balance)
    IN  RoundMoney(RMax(Zero, RMin(target, available_cash)))

\* _compute_buy_notional
ComputeBuyNotional(agent, portfolio, conviction) ==
    LET position_cap ==
            RMul(portfolio.equity, Get(agent, "max_position_pct", DEFAULT_MAX_POSITION_PCT))
        target == RMul(position_cap, ConvictionScale(conviction))
        cash_buffer ==
            RMul(portfolio.equity, Get(agent, "cash_buffer_pct", DEFAULT_CASH_BUFFER_PCT))
        available_cash == RMax(Zero, RSub(portfolio.cash_balance, cash_buffer))
    IN  RoundMoney(RMax(Zero, RMin(target, available_cash)))

\* _compute_sell_notional
ComputeSellNotional(position, conviction) ==
    RoundMoney(RMul(position.market_value_eur, ConvictionScale(conviction)))

AgentHasTradeOnDateNever(t, agent_id, trade_date) == FALSE

\* _agent_has_trade_on_date: substr(created_at, 1, 10) = trade_date
AgentHasTradeOnDate(t, agent_id, trade_date) ==
    \E i \in DOMAIN t.trades :
        t.trades[i].agent_id = agent_id /\ t.trades[i].created_at = trade_date

\* max(positions, key=market_value_eur): the first of the largest
Largest(items) ==
    items[CHOOSE i \in DOMAIN items :
            /\ \A j \in DOMAIN items :
                 RLe(items[j].market_value_eur, items[i].market_value_eur)
            /\ \A j \in 1..(i - 1) :
                 RLt(items[j].market_value_eur, items[i].market_value_eur)]

SelectSellPositionLargest(portfolio, preferred_asset) ==
    IF Len(portfolio.positions) = 0 THEN None ELSE Largest(portfolio.positions)

\* _select_sell_position
SelectSellPosition(portfolio, preferred_asset) ==
    LET preferred == FindPosition(portfolio, preferred_asset)
    IN  IF preferred # None THEN preferred
        ELSE IF Len(portfolio.positions) = 0 THEN None
        ELSE Largest(portfolio.positions)

\* _position_price
PositionPrice(position, mark_prices) ==
    LET market_price == Get(mark_prices, position.asset, Zero)
    IN  IF RLt(Zero, market_price) THEN market_price
        ELSE IF RLt(Zero, position.market_price) THEN position.market_price
        ELSE position.avg_price

AppendEventDropped(ev, event_type, agent_id, reason) == ev

\* append_event: one row of table events
AppendEvent(ev, event_type, agent_id, reason) ==
    Append(ev, [event_type |-> event_type, agent_id |-> agent_id, reason |-> reason])

----------------------------------------------------------------------------
(* orchestrator.py: the main loop over an agent's assets *)

ExecutedUnlogged(s, agent_id, done) ==
    [s EXCEPT
       !.tables = done.tables,
       !.events = IF done.result.status = "filled"
                  THEN AppendEvent(@, "paper_trade", agent_id, done.result.reason)
                  ELSE @,
       !.fills = @ + (IF done.result.status = "filled" THEN 1 ELSE 0)]

\* the result of execute_paper_order is logged and counted; s carries the
\* tables, the events and the counters of the passes so far
Executed(s, agent_id, done) ==
    [s EXCEPT
       !.tables = done.tables,
       !.events = AppendEvent(@, IF done.result.status = "filled"
                                 THEN "paper_trade" ELSE "order_rejected",
                              agent_id, done.result.reason),
       !.fills = @ + (IF done.result.status = "filled" THEN 1 ELSE 0)]

SizedHalfMinimum(s, agent, asset, action, latest_price, notional, cfg) ==
    IF RLt(notional, RDiv(cfg.minimum_order, RInt(2))) THEN s
    ELSE Executed(s, agent.id,
                  ExecutePaperOrder(s.tables,
                                    [agent_id |-> agent.id, asset |-> asset,
                                     side |-> action, price |-> latest_price,
                                     notional_eur |-> notional,
                                     reason |-> OrganicReason],
                                    cfg.fee_rate))

\* if notional < minimum_order: continue; else the order is executed
Sized(s, agent, asset, action, latest_price, notional, cfg) ==
    IF RLt(notional, cfg.minimum_order) THEN s
    ELSE Executed(s, agent.id,
                  ExecutePaperOrder(s.tables,
                                    [agent_id |-> agent.id, asset |-> asset,
                                     side |-> action, price |-> latest_price,
                                     notional_eur |-> notional,
                                     reason |-> OrganicReason],
                                    cfg.fee_rate))

\* the branch on the decision: HOLD, BUY, or SELL of a held position
Acted(s, agent, asset, score, action, latest_price, portfolio, cfg) ==
    IF action = "HOLD" THEN s
    ELSE IF action = "BUY"
    THEN Sized(s, agent, asset, action, latest_price,
               ComputeBuyNotional(agent, portfolio, score), cfg)
    ELSE IF FindPosition(portfolio, asset) = None THEN s
    ELSE Sized(s, agent, asset, action, latest_price,
               ComputeSellNotional(FindPosition(portfolio, asset), score), cfg)

\* agent_trades_this_cycle = 0; agent_prices = {}
LoopStart(t, ev) ==
    [tables |-> t, events |-> ev, fills |-> 0, decisions |-> 0, agent_prices |-> <<>>]

\* one pass of the loop body for one asset
AssetStep(s, agent, asset, scores, market, cfg) ==
    IF asset \notin DOMAIN market.candles THEN s
    ELSE Acted([s EXCEPT
                  !.agent_prices = Merge(@, [a \in {asset} |-> market.candles[asset]]),
                  !.decisions = @ + 1],
               agent, asset, scores[asset],
               DecisionFromScore(scores[asset],
                                 Get(agent, "buy_threshold", DEFAULT_BUY_THRESHOLD),
                                 Get(agent, "sell_threshold", DEFAULT_SELL_THRESHOLD)),
               market.candles[asset],
               GetPortfolio(s.tables, agent.id,
                            [a \in {asset} |-> market.candles[asset]]),
               cfg)

\* for asset in agent.get("assets", [])
RECURSIVE AssetLoop(_, _, _, _, _, _)
AssetLoop(s, agent, n, scores, market, cfg) ==
    IF n = 0 THEN s
    ELSE AssetStep(AssetLoop(s, agent, n - 1, scores, market, cfg), agent,
                   agent.assets[n], scores, market, cfg)

----------------------------------------------------------------------------
(* orchestrator.py: _enforce_daily_trade_requirement *)

\* the tables and events the call leaves, what it returns, the order it
\* submitted and the side, asset, price and notional it settled on
Enforcement(t, ev, returned, submitted, plan, path) ==
    [tables |-> t, events |-> ev, returned |-> returned, submitted |-> submitted,
     plan |-> plan, path |-> path]

\* append_event 'daily_trade_enforcement_skipped'; return None
Skipped(t, ev, agent_id, reason) ==
    Enforcement(t, AppendEvent(ev, "daily_trade_enforcement_skipped", agent_id, reason),
                None, NoOrder, NoPlan, reason)

\* append_event 'daily_trade_enforcement_failed'; return None
Failed(t, ev, agent_id, reason, plan) ==
    Enforcement(t, AppendEvent(ev, "daily_trade_enforcement_failed", agent_id, reason),
                None, NoOrder, plan, reason)

\* the events after execute_paper_order: its result, then daily_trade_enforced
Submitted(ev, agent_id, plan, sent, done) ==
    Enforcement(done.tables,
                AppendEvent(AppendEvent(ev, IF done.result.status = "filled"
                                            THEN "paper_trade" ELSE "order_rejected",
                                        agent_id, done.result.reason),
                            "daily_trade_enforced", agent_id, done.result.status),
                done.result, sent, plan, "submitted")

\* the order with notional_eur = round(notional, 8) goes to the ledger
Submit(t, ev, agent_id, sent, plan, rate) ==
    Submitted(ev, agent_id, plan, sent, ExecutePaperOrder(t, sent, rate))

\* the side, asset, price and notional the fallback policy arrives at, or the
\* reason why it arrives at none
ChoosePlan(side, daily_asset, price, target_notional, max_affordable_buy, sell_position, mark_prices, minimum_order) ==
    LET buy == [side |-> "BUY", asset |-> daily_asset, price |-> price,
                notional |-> RMin(target_notional, max_affordable_buy)]
        sell == [side |-> "SELL", asset |-> sell_position.asset,
                 price |-> PositionPrice(sell_position, mark_prices),
                 notional |-> RMin(target_notional, sell_position.market_value_eur)]
    IN  IF side = "BUY"
        THEN IF RLt(RMin(target_notional, max_affordable_buy), minimum_order)
             THEN IF sell_position = None
                  THEN [failed |-> "insufficient_cash_and_no_position"]
                  ELSE sell
             ELSE buy
        ELSE IF sell_position = None
                \/ RLt(sell_position.market_value_eur, minimum_order)
        THEN IF RLt(max_affordable_buy, minimum_order)
             THEN [failed |-> "no_sell_position_and_not_enough_cash"]
             ELSE buy
        ELSE sell

\* the last check of the notional, and the order
Settle(t, ev, agent_id, plan, minimum_order, rate, trade_date) ==
    IF "failed" \in DOMAIN plan THEN Failed(t, ev, agent_id, plan.failed, NoPlan)
    ELSE IF RLt(plan.notional, minimum_order)
    THEN Failed(t, ev, agent_id, "notional_below_minimum", plan)
    ELSE Submit(t, ev, agent_id,
                [agent_id |-> agent_id, asset |-> plan.asset, side |-> plan.side,
                 price |-> plan.price, notional_eur |-> RoundMoney(plan.notional),
                 reason |-> MandatoryReason(trade_date)],
                plan, rate)

\* from get_portfolio on: the agent is due a trade and the price is known
EnforceWithPortfolio(t, ev, agent, agent_id, portfolio, daily_asset, price, mark_prices, minimum_order, rate, trade_date) ==
    LET requested_side == Get(agent, "daily_trade_side", "BUY")
        side == IF requested_side \in {"BUY", "SELL"} THEN requested_side ELSE "BUY"
        target_notional ==
            RMax(minimum_order, Get(agent, "daily_trade_notional_eur", minimum_order))
        max_affordable_buy == RDiv(portfolio.cash_balance, RAdd(RInt(1), rate))
    IN  Settle(t, ev, agent_id,
               ChoosePlan(side, daily_asset, price, target_notional,
                          max_affordable_buy,
                          SelectSellPosition(portfolio, daily_asset),
                          mark_prices, minimum_order),
               minimum_order, rate, trade_date)

EnforceDailyTradeRequirement(t, ev, agent, agent_id, mark_prices, candles, minimum_order, rate, trade_date, trades_executed_this_cycle) ==
    LET quit(path) == Enforcement(t, ev, None, NoOrder, NoPlan, path)
        \* agent.get("daily_trade_asset") or (agent.get("assets", [None])[0] or "")
        no_first_asset == "daily_trade_asset" \notin DOMAIN agent
                          /\ "assets" \in DOMAIN agent /\ Len(agent.assets) = 0
        daily_asset ==
            IF "daily_trade_asset" \in DOMAIN agent THEN agent.daily_trade_asset
            ELSE IF "assets" \in DOMAIN agent THEN agent.assets[1]
            ELSE ""
        snapshot_price == Get(mark_prices, daily_asset, Zero)
        \* a price of 0 or less is replaced by the close of the last candle
        price == IF RLe(snapshot_price, Zero) THEN Get(candles, daily_asset, Zero)
                 ELSE snapshot_price
    IN  IF ~Get(agent, "force_daily_trade", FALSE) THEN quit("not_forced")
        ELSE IF trades_executed_this_cycle > 0 THEN quit("traded_this_cycle")
        ELSE IF AgentHasTradeOnDate(t, agent_id, trade_date) THEN quit("traded_today")
        ELSE IF no_first_asset
        THEN Enforcement(t, ev, Raised("IndexError"), NoOrder, NoPlan, "raised")
        ELSE IF daily_asset = "" THEN Skipped(t, ev, agent_id, "missing_daily_trade_asset")
        ELSE IF RLe(price, Zero) THEN Skipped(t, ev, agent_id, "no_price_data")
        ELSE EnforceWithPortfolio(t, ev, agent, agent_id,
                                  GetPortfolio(t, agent_id, mark_prices),
                                  daily_asset, price, mark_prices, minimum_order,
                                  rate, trade_date)

----------------------------------------------------------------------------
(* orchestrator.py: run_single_cycle, one action per agent of the loop *)

DailyOrder(side, asset, price, notional) ==
    [agent_id |-> "a1", asset |-> asset, side |-> side, price |-> RInt(price),
     notional_eur |-> notional, reason |-> OrganicReason]

\* fills of the first agent before the first modelled day: none; a large ETH
\* and a small BTC position; a BTC position bought and sold at half the
\* price; a BTC position bought and sold at a hundredth of the price
DailyHistories ==
    {<<>>,
     <<DailyOrder("BUY", "ETH", 2000, RInt(90)),
       DailyOrder("BUY", "BTC", 60000, RInt(6))>>,
     <<DailyOrder("BUY", "BTC", 60000, RInt(50)),
       DailyOrder("SELL", "BTC", 30000, RInt(25))>>,
     <<DailyOrder("BUY", "BTC", 60000, RInt(96)),
       DailyOrder("SELL", "BTC", 600, Rat(96, 100))>>}

\* the same tables with every trade dated the day before the given one
DatedBefore(t, date) ==
    [t EXCEPT !.trades = [i \in DOMAIN t.trades |->
                             [t.trades[i] EXCEPT !.created_at = date - 1]]]

Idle(number) ==
    [running |-> FALSE, number |-> number, trade_date |-> 0,
     market |-> [snapshot |-> <<>>, candles |-> <<>>], todo |-> <<>>,
     turns |-> <<>>, summary |-> [decisions |-> 0, trades |-> 0]]

InitDaily ==
    /\ clock = 1
    /\ \E h \in DailyHistories : AtRest(DatedBefore(LedgerAfter(h), 1))
    /\ prev = NoPrev
    /\ config \in Configs
    /\ cycle = Idle(0)
    /\ events = <<>>
    /\ enforced = NoEnforced
    /\ probe = NoProbe
    /\ agents = InitialAgents

ledgervars == <<conn, pc, order, requested, fee_rate, loc, result, pre, calls, fills>>

\* entry of run_single_cycle: the trade date and the market snapshot
StartCycle(market) ==
    /\ ~cycle.running
    /\ cycle.number < MaxCycles
    /\ cycle' = [running |-> TRUE, number |-> cycle.number + 1,
                 trade_date |-> UtcDate, market |-> market,
                 todo |-> config.agents, turns |-> <<>>,
                 summary |-> [decisions |-> 0, trades |-> 0]]
    /\ UNCHANGED <<portfolios, positions, trades, ledgervars, rdvars, prev, clock,
                   config, events, enforced, probe, agents>>

\* the agent's turn is over: the tables and events it leaves, the record of
\* the enforcer's call, the summary
TurnDone(agent, scores, loop, mark_prices, forced) ==
    /\ portfolios' = forced.tables.portfolios
    /\ positions' = forced.tables.positions
    /\ trades' = forced.tables.trades
    /\ events' = forced.events
    /\ enforced' =
         [cycle |-> cycle.number, agent |-> agent,
          trade_date |-> cycle.trade_date,
          now |-> clock, scores |-> scores,
          tables_start |-> Tables, events_start |-> events,
          trades_executed_this_cycle |-> loop.fills,
          mark_prices |-> mark_prices,
          candles |-> cycle.market.candles,
          portfolio |-> GetPortfolio(loop.tables, agent.id, mark_prices),
          tables_before |-> loop.tables, events_before |-> loop.events,
          tables_after |-> forced.tables, events_after |-> forced.events,
          returned |-> forced.returned, submitted |-> forced.submitted,
          plan |-> forced.plan, path |-> forced.path]
    /\ cycle' = [cycle EXCEPT
                   !.todo = Tail(@),
                   !.turns = Append(@, agent.id),
                   !.summary.decisions = @ + loop.decisions,
                   !.summary.trades =
                       @ + loop.fills
                         + (IF forced.returned # None
                               /\ forced.returned.status = "filled"
                            THEN 1 ELSE 0)]

EnforceBesideLoop(agent, scores, loop, mark_prices) ==
    TurnDone(agent, scores, loop, mark_prices,
             EnforceDailyTradeRequirement(
                 Tables, events, agent, agent.id, mark_prices,
                 cycle.market.candles, config.minimum_order, config.fee_rate,
                 cycle.trade_date, loop.fills))

\* after the loop over the assets: the daily-trade enforcer
Enforce(agent, scores, loop, mark_prices) ==
    TurnDone(agent, scores, loop, mark_prices,
             EnforceDailyTradeRequirement(
                 loop.tables, loop.events, agent, agent.id, mark_prices,
                 cycle.market.candles, config.minimum_order, config.fee_rate,
                 cycle.trade_date, loop.fills))

\* one iteration of "for agent in config['agents']": the loop over the
\* agent's assets and then the daily-trade enforcer
AgentTurn(scores) ==
    /\ cycle.running
    /\ Len(cycle.todo) > 0
    /\ DOMAIN scores = {cycle.todo[1].assets[i] : i \in DOMAIN cycle.todo[1].assets}
    /\ \E loop \in {AssetLoop(LoopStart(Tables, events), cycle.todo[1],
                              Len(cycle.todo[1].assets), scores, cycle.market,
                              config)} :
         Enforce(cycle.todo[1], scores, loop,
                 Merge(cycle.market.snapshot, loop.agent_prices))
    /\ UNCHANGED <<ledgervars, rdvars, prev, clock, config, probe, agents>>

\* after the last agent: append_event(db_path, "cycle_summary", summary)
FinishCycle ==
    /\ cycle.running
    /\ Len(cycle.todo) = 0
    /\ events' = AppendEvent(events, "cycle_summary", "all", "none")
    /\ cycle' = [cycle EXCEPT !.running = FALSE]
    /\ UNCHANGED <<portfolios, positions, trades, ledgervars, rdvars, prev, clock,
                   config, enforced, probe, agents>>

\* midnight UTC passes
Tick ==
    /\ clock < MaxDate
    /\ clock' = clock + 1
    /\ UNCHANGED <<portfolios, positions, trades, ledgervars, rdvars, prev, config,
                   cycle, events, enforced, probe, agents>>

NextDaily ==
    \/ \E market \in Markets : StartCycle(market)
    \/ \E scores \in ScoreMaps : AgentTurn(scores)
    \/ FinishCycle
    \/ Tick

SpecDaily == InitDaily /\ [][NextDaily]_vars

----------------------------------------------------------------------------
(* Readers on a separate connection: get_portfolio.py and the trades query *)
(* of export_dashboard.py.  Each SELECT runs in autocommit mode and sees   *)
(* the committed tables of the moment it executes.                         *)

RECURSIVE Reverse(_)
Reverse(s) == IF s = <<>> THEN <<>> ELSE Append(Reverse(Tail(s)), Head(s))

\* SELECT ... FROM positions WHERE agent_id = ?
AgentPositions(t, agent_id) == {r \in t.positions : r.agent_id = agent_id}

\* get_portfolio: first SELECT (portfolios); raises when the row is missing
ReadPortfolioRow(agent_id) ==
    /\ UNCHANGED <<xvars, prev>>
    /\ rd_pc # "row_read"
    /\ reads < MaxReads
    /\ reads' = reads + 1
    /\ rd_agent' = agent_id
    /\ rd_call' = calls
    /\ rd_row' = FetchPortfolio(Tables, agent_id)
    /\ rd_positions' = {}
    /\ rd_pc' = IF FetchPortfolio(Tables, agent_id) = NoRow
                THEN "raised" ELSE "row_read"
    /\ UNCHANGED <<portfolios, positions, trades, conn, pc, order, requested, fee_rate,
                   loc, result, pre, calls, fills, rd_trades>>

\* get_portfolio: second SELECT (positions) and return
ReadPositions ==
    /\ UNCHANGED <<xvars, prev>>
    /\ rd_pc = "row_read"
    /\ rd_positions' = AgentPositions(Tables, rd_agent)
    /\ rd_pc' = "returned"
    /\ UNCHANGED <<portfolios, positions, trades, conn, pc, order, requested, fee_rate,
                   loc, result, pre, calls, fills, rd_agent, rd_row, rd_call,
                   rd_trades, reads>>

\* _fetch_recent_trades: SELECT ... FROM trades ORDER BY id DESC
QueryTrades ==
    /\ UNCHANGED <<xvars, prev>>
    /\ reads < MaxReads
    /\ reads' = reads + 1
    /\ rd_trades' = Reverse(trades)
    /\ UNCHANGED <<portfolios, positions, trades, conn, pc, order, requested, fee_rate,
                   loc, result, pre, calls, fills, rd_pc, rd_agent, rd_row,
                   rd_positions, rd_call>>

\* orders of the ledger calls the readers are interleaved with
ReadOrders ==
    {o \in ValidOrders :
        o.agent_id = "a1" /\ o.asset = "BTC" /\ o.price = RInt(30000)}

ReadFeeRates == {Zero, Rat(1, 1000)}

NextRead ==
    \/ \E o \in ReadOrders, rate \in ReadFeeRates :
          Call(o, rate) /\ UNCHANGED prev
    \/ Evaluate
    \/ WritePosition
    \/ WriteCash
    \/ InsertTrade
    \/ Commit
    \/ Fault
    \/ \E a \in AllAgents : ReadPortfolioRow(a)
    \/ ReadPositions
    \/ QueryTrades

SpecRead == Init /\ [][NextRead]_vars

----------------------------------------------------------------------------
(* Claims about execute_paper_order *)

Returns == pc = "done" /\ calls > 0
LastSide == NormaliseSide(order.side)
PreRow == FetchPortfolio(pre, order.agent_id)
PrePosition == FetchPosition(pre, order.agent_id, order.asset)
PreQuantity == IF PrePosition = NoRow THEN Zero ELSE PrePosition.quantity
NowRow == FetchPortfolio(Tables, order.agent_id)
NowPosition == FetchPosition(Tables, order.agent_id, order.asset)
LastTrade == trades[Len(trades)]

\* the order passes the three entry checks and its agent has a portfolio row
Accepted ==
    /\ LastSide \in {"BUY", "SELL"}
    /\ order.price.n > 0
    /\ requested.n > 0
    /\ PreRow # NoRow

Filled == Returns /\ result.status = "filled"

\* C1: the stored cash_balance of every agent is >= 0 in every reachable
\* state, whatever the mix of orders and whatever non-negative fee_rate.
C1_CashNeverNegative ==
    \A a \in DOMAIN portfolios : portfolios[a].cash_balance.n >= 0

\* C2: a BUY whose notional + notional * fee_rate exceeds the cash balance
\* returns rejected / insufficient_cash and leaves cash, positions and trades
\* as they were before the call.
C2_BuyBeyondCashRejected ==
    (/\ Returns
     /\ Accepted
     /\ LastSide = "BUY"
     /\ RLt(PreRow.cash_balance, RAdd(requested, RMul(requested, fee_rate))))
    => /\ result = [status |-> "rejected", reason |-> "insufficient_cash"]
       /\ Tables = pre

\* the notional alone is affordable, only the fee tips the order over
C2_Witness ==
    /\ Returns
    /\ Accepted
    /\ LastSide = "BUY"
    /\ result.reason = "insufficient_cash"
    /\ RLe(requested, PreRow.cash_balance)
    /\ fee_rate.n > 0
    /\ fee_rate.n < fee_rate.d

\* C3: a SELL that fills trades min(requested notional, held quantity * price)
\* and never more than the held quantity; no stored position quantity is
\* ever negative.
C3_SellCapped ==
    /\ (Filled /\ LastSide = "SELL")
       => /\ LastTrade.notional = RMin(requested, RMul(PreQuantity, order.price))
          /\ RLe(LastTrade.quantity, PreQuantity)
    /\ \A r \in positions : r.quantity.n >= 0

\* a SELL asked for more than the position was worth and was cut down
C3_Witness ==
    /\ Filled
    /\ LastSide = "SELL"
    /\ RLt(LastTrade.notional, requested)
    /\ LastTrade.quantity = PreQuantity

\* C4: a call that raises after BEGIN, at whichever write it happens, leaves
\* the persisted cash, positions and trades equal to their pre-call values.
C4_RaiseRollsBack ==
    (Returns /\ result.status = "raised") => Tables = pre

\* the commit failed with the position, the cash and the trade row written
C4_Witness ==
    /\ Returns
    /\ result = [status |-> "raised", reason |-> "trade_inserted"]
    /\ Tables = pre

\* what a completed get_portfolio call on the other connection fetched
Observed == [row |-> rd_row, positions |-> rd_positions]

\* what get_portfolio would fetch from tables t
View(t) ==
    [row |-> FetchPortfolio(t, rd_agent), positions |-> AgentPositions(t, rd_agent)]

\* the reader's first SELECT came after the last ledger call began
ReadDuringLastCall == calls > 0 /\ rd_call = calls

\* C5 as stated: a get_portfolio call interleaved with one ledger call
\* observes the complete pre-call state or the complete post-call state.
C5_ReaderSeesPreOrPost ==
    (rd_pc = "returned" /\ ReadDuringLastCall)
    => (Observed = View(pre) \/ Observed = View(Tables))

\* C5 as amended: no uncommitted write is visible outside the transaction
\* and the commit publishes the position write, the cash write and the trade
\* row in one step, so every single read statement on another connection
\* sees the complete pre-call or the complete post-call tables.
C5_SingleReadsAtomic ==
    /\ pc # "done" => Tables = pre
    /\ (Returns /\ result.status # "filled") => Tables = pre
    /\ Filled => /\ Len(trades) = Len(pre.trades) + 1
                 /\ positions # pre.positions
                 /\ portfolios # pre.portfolios
    /\ (rd_pc \in {"row_read", "returned"} /\ ReadDuringLastCall)
       => rd_row \in {View(pre).row, View(Tables).row}
    /\ (rd_pc = "returned" /\ ReadDuringLastCall)
       => rd_positions \in {View(pre).positions, View(Tables).positions}
    /\ \E k \in 0..Len(trades) : rd_trades = Reverse(SubSeq(trades, 1, k))

\* get_portfolio read the cash row before the commit and the positions after
C5_Witness ==
    /\ rd_pc = "returned"
    /\ ReadDuringLastCall
    /\ Filled
    /\ rd_agent = order.agent_id
    /\ rd_row = View(pre).row
    /\ rd_row # View(Tables).row
    /\ rd_positions = View(Tables).positions
    /\ rd_positions # View(pre).positions

\* the trade row a fill must leave behind: realized quantity, price,
\* notional and fee
RealizedNotional ==
    IF LastSide = "BUY" THEN requested
    ELSE RMin(requested, RMul(PreQuantity, order.price))

ExpectedTrade ==
    [agent_id |-> order.agent_id, asset |-> order.asset, side |-> LastSide,
     quantity |-> RDiv(RealizedNotional, order.price), price |-> order.price,
     notional |-> RealizedNotional,
     fee |-> RMul(RealizedNotional, fee_rate), reason |-> order.reason,
     created_at |-> clock]

C6_Rows ==
    /\ fills = Len(trades)
    /\ Filled => trades = Append(pre.trades, ExpectedTrade)
    /\ (Returns /\ result.status # "filled") => trades = pre.trades

C6_Append ==
    /\ Len(trades') >= Len(trades)
    /\ SubSeq(trades', 1, Len(trades)) = trades

\* C6: every filled call appends exactly one trade row carrying the realized
\* (for SELL: capped) quantity, price, notional and fee; rejected and raising
\* calls append none; no step updates or deletes an existing row, so the
\* number of rows equals the number of fills.
C6_OneRowPerFill == [](C6_Rows) /\ [][C6_Append]_vars

\* a capped SELL filled: the appended row carries the capped notional
C6_Witness ==
    /\ Filled
    /\ LastSide = "SELL"
    /\ Len(trades) = 2
    /\ RLt(LastTrade.notional, requested)

\* C7: an order whose side (as the ledger reads it) is neither BUY nor SELL,
\* whose price or notional is <= 0, or whose agent has no portfolio row makes
\* the call raise, with cash, positions and trades unchanged.
C7_InvalidOrderRaises ==
    (/\ Returns
     /\ \/ LastSide \notin {"BUY", "SELL"}
        \/ order.price.n <= 0
        \/ requested.n <= 0
        \/ PreRow = NoRow)
    => /\ result.status = "raised"
       /\ Tables = pre

\* an otherwise valid order for an agent without a portfolio row raised
\* inside the transaction
C7_Witness ==
    /\ Returns
    /\ result.status = "raised"
    /\ PreRow = NoRow
    /\ LastSide \in {"BUY", "SELL"}
    /\ order.price.n > 0
    /\ requested.n > 0

\* C8: a SELL on an (agent, asset) pair with no position row, or with a stored
\* quantity <= 0, returns rejected / no_position and changes nothing.
C8_SellWithoutPositionRejected ==
    (/\ Returns
     /\ Accepted
     /\ LastSide = "SELL"
     /\ (PrePosition = NoRow \/ PreQuantity.n <= 0))
    => /\ result = [status |-> "rejected", reason |-> "no_position"]
       /\ Tables = pre

\* the agent held another asset, but not the one it tried to sell
C8_Witness ==
    /\ Returns
    /\ Accepted
    /\ LastSide = "SELL"
    /\ PrePosition = NoRow
    /\ AgentPositions(pre, order.agent_id) # {}
    /\ result.reason = "no_position"

\* C9: a BUY that fills sets quantity to old_qty + n/p, avg_price to the
\* weighted average (p when old_qty was 0) and lowers cash by n + n*f;
\* cash 100, price 60000, notional 50, fee rate 0.001 give fee 0.05 and
\* cash 49.95.
C9_BuyFill ==
    (Filled /\ LastSide = "BUY")
    => LET n == requested
           p == order.price
           bought == RDiv(n, p)
           old_qty == PreQuantity
       IN  /\ NowPosition # NoRow
           /\ NowPosition.quantity = RAdd(old_qty, bought)
           /\ NowPosition.avg_price =
                IF old_qty = Zero THEN p
                ELSE RDiv(RAdd(RMul(old_qty, PrePosition.avg_price), RMul(bought, p)),
                          RAdd(old_qty, bought))
           /\ NowRow.cash_balance =
                RSub(PreRow.cash_balance, RAdd(n, RMul(n, fee_rate)))
           /\ (/\ PreRow.cash_balance = RInt(100)
               /\ p = RInt(60000)
               /\ n = RInt(50)
               /\ fee_rate = Rat(1, 1000))
              => /\ LastTrade.fee = Rat(5, 100)
                 /\ NowRow.cash_balance = Rat(4995, 100)

\* a second BUY at a different price moved the average
C9_Witness ==
    /\ Filled
    /\ LastSide = "BUY"
    /\ PreQuantity.n > 0
    /\ PrePosition.avg_price # order.price
    /\ NowPosition.avg_price # order.price

\* C10: a SELL that fills raises cash by capped notional - fee with the fee
\* taken on the capped notional, and when a position remains its avg_price
\* is what it was before the sell.
C10_SellFill ==
    (Filled /\ LastSide = "SELL")
    => LET capped == RMin(requested, RMul(PreQuantity, order.price))
           fee == RMul(capped, fee_rate)
       IN  /\ LastTrade.fee = fee
           /\ NowRow.cash_balance = RAdd(PreRow.cash_balance, RSub(capped, fee))
           /\ NowPosition # NoRow
              => NowPosition.avg_price = PrePosition.avg_price

\* a partial SELL at a price other than the cost basis, with a fee
C10_Witness ==
    /\ Filled
    /\ LastSide = "SELL"
    /\ NowPosition # NoRow
    /\ PrePosition.avg_price # order.price
    /\ fee_rate.n > 0

\* what the SELL of the last call left of the position it sold from
RemainingQty == RSub(PreQuantity, LastTrade.quantity)

WellFormedPositions(rows) ==
    /\ \A r1 \in rows, r2 \in rows :
          (r1.agent_id = r2.agent_id /\ r1.asset = r2.asset) => r1 = r2
    /\ \A r \in rows : r.quantity.n > 0 /\ r.avg_price.n > 0

\* C11: in every state reached through ledger operations there is at most one
\* position row per (agent, asset) and every stored row has quantity > 0 and
\* avg_price > 0; a SELL that leaves a quantity <= 1e-10 deletes the row.
C11_PositionRows ==
    /\ WellFormedPositions(positions)
    /\ WellFormedPositions(conn.positions)
    /\ (/\ Filled
        /\ LastSide = "SELL"
        /\ \/ RLe(RemainingQty, Zero)
           \/ RemainingQty.n <= (RemainingQty.d \div DUST_SCALE) \div DUST_SCALE)
       => NowPosition = NoRow

\* a BUY followed by a SELL of the whole position: the row is gone again
C11_Witness ==
    /\ Filled
    /\ LastSide = "SELL"
    /\ PrePosition # NoRow
    /\ NowPosition = NoRow
    /\ LastTrade.quantity = PreQuantity
    /\ fills = 2

\* the last two calls were a filled BUY and then a filled SELL of the same
\* notional at the same price on the same (agent, asset), both without fee
RoundTrip ==
    /\ Filled
    /\ LastSide = "SELL"
    /\ prev # NoPrev
    /\ prev.result.status = "filled"
    /\ NormaliseSide(prev.order.side) = "BUY"
    /\ prev.order.agent_id = order.agent_id
    /\ prev.order.asset = order.asset
    /\ prev.order.price = order.price
    /\ prev.requested = requested
    /\ prev.fee_rate = Zero
    /\ fee_rate = Zero

BeforeTripRow == FetchPortfolio(prev.pre, order.agent_id)
BeforeTripPosition == FetchPosition(prev.pre, order.agent_id, order.asset)

----------------------------------------------------------------------------
(* Claims about scoring.py *)

Applied(fn) == probe # NoProbe /\ probe.fn = fn /\ probe.applied

\* number of candles of the probed list that carry a close
ClosesGiven ==
    Cardinality({i \in DOMAIN probe.args[1] : "close" \in DOMAIN probe.args[1][i]})

\* C13: for every score and every threshold pair with sell_threshold <
\* buy_threshold, decision_from_score returns BUY iff score >= buy_threshold,
\* SELL iff score <= sell_threshold, and HOLD otherwise.
C13_DecisionRule ==
    (/\ Applied("decision_from_score")
     /\ RLt(probe.args[3], probe.args[2]))
    => LET score == probe.args[1]
           buy == probe.args[2]
           sell == probe.args[3]
       IN  /\ probe.value \in {"BUY", "SELL", "HOLD"}
           /\ (probe.value = "BUY") <=> (score.n * buy.d >= buy.n * score.d)
           /\ (probe.value = "SELL") <=> (score.n * sell.d <= sell.n * score.d)
           /\ (probe.value = "HOLD") <=> (/\ score.n * buy.d < buy.n * score.d
                                          /\ score.n * sell.d > sell.n * score.d)

\* a score exactly on the buy threshold is a BUY
C13_Witness ==
    /\ Applied("decision_from_score")
    /\ RLt(probe.args[3], probe.args[2])
    /\ probe.args[1] = probe.args[2]
    /\ probe.value = "BUY"

\* C14: for every strategy list (known names, unknown names, duplicates, the
\* empty list), every regime and volatility state and every strategy score in
\* [-1, 1], score_trade_opportunity returns total_score in [-1, 1]; with the
\* empty list it returns 0.
C14_TotalScoreInRange ==
    Applied("score_trade_opportunity")
    => /\ \A k \in DOMAIN probe.value.strategy_scores :
            /\ -probe.value.strategy_scores[k].d <= probe.value.strategy_scores[k].n
            /\ probe.value.strategy_scores[k].n <= probe.value.strategy_scores[k].d
       /\ -probe.value.total_score.d <= probe.value.total_score.n
       /\ probe.value.total_score.n <= probe.value.total_score.d
       /\ Len(probe.args[2]) = 0 => probe.value.total_score = Zero

\* the sentiment filter alone, fed a sentiment beyond 1, gives exactly 1
C14_Witness ==
    /\ Applied("score_trade_opportunity")
    /\ probe.args[2] = <<"sentiment_filter">>
    /\ probe.args[4] = RInt(2)
    /\ probe.value.total_score = RInt(1)

\* C15: with fewer than 30 closes detect_market_regime returns exactly
\* {ranging, normal, momentum 0, confidence 0}; score_mean_reversion,
\* score_trend_follow and score_breakout_confirmation return exactly 0 with
\* fewer than 20, 30 and 25 closes; none of them raises, the empty history
\* included.
C15_ShortHistoryNeutral ==
    /\ (Applied("detect_market_regime") /\ ClosesGiven < 30)
       => probe.value = [regime |-> "ranging", volatility_state |-> "normal",
                         momentum |-> Zero, confidence |-> Zero]
    /\ (Applied("score_mean_reversion") /\ ClosesGiven < 20) => probe.value = Zero
    /\ (Applied("score_trend_follow") /\ ClosesGiven < 30) => probe.value = Zero
    /\ (Applied("score_breakout_confirmation") /\ ClosesGiven < 25)
       => probe.value = Zero

\* one close short of the trend-follow minimum, on a list that has 30 candles
\* or on one that has 29
C15_Witness ==
    /\ Applied("score_trend_follow")
    /\ ClosesGiven = 29
    /\ probe.value = Zero

----------------------------------------------------------------------------
(* Claims about the daily-trade enforcer *)

\* the last call of the enforcer, read from the record of the agent's turn
Opted == Get(enforced.agent, "force_daily_trade", FALSE)

TradedOnDate ==
    \E i \in DOMAIN enforced.tables_before.trades :
        /\ enforced.tables_before.trades[i].agent_id = enforced.agent.id
        /\ enforced.tables_before.trades[i].created_at = enforced.trade_date

\* the enforcer got past its three early returns
Due ==
    /\ enforced # NoEnforced
    /\ Opted
    /\ enforced.trades_executed_this_cycle = 0
    /\ ~TradedOnDate

MandatoryTrades(agent_id, date) ==
    {i \in DOMAIN trades :
        /\ trades[i].agent_id = agent_id
        /\ trades[i].created_at = date
        /\ trades[i].reason \in MandatoryReasons}

\* C16: the enforcer submits an order only for an agent that sets
\* force_daily_trade, had no organic fill in this cycle and has no trade row
\* on the cycle's UTC date; otherwise it returns None and leaves the tables
\* as they were; no agent has two mandatory trades on one UTC date
C16_MandatoryOncePerDay ==
    /\ enforced # NoEnforced =>
         /\ enforced.submitted # NoOrder => Due
         /\ ~Due => /\ enforced.returned = None
                    /\ enforced.submitted = NoOrder
                    /\ enforced.tables_after = enforced.tables_before
    /\ \A agent_id \in Agents : \A date \in 0..(MaxDate + 1) :
         Cardinality(MandatoryTrades(agent_id, date)) <= 1

\* a second cycle on the date of the first agent's mandatory trade: the
\* enforcer returned at once
C16_Witness ==
    /\ enforced # NoEnforced
    /\ enforced.cycle = 2
    /\ enforced.agent.id = "a1"
    /\ enforced.trades_executed_this_cycle = 0
    /\ TradedOnDate
    /\ enforced.returned = None
    /\ MandatoryTrades("a1", enforced.trade_date) # {}

DailyAsset ==
    IF "daily_trade_asset" \in DOMAIN enforced.agent
    THEN enforced.agent.daily_trade_asset
    ELSE enforced.agent.assets[1]

PriceKnown ==
    \/ RLt(Zero, Get(enforced.mark_prices, DailyAsset, Zero))
    \/ RLt(Zero, Get(enforced.candles, DailyAsset, Zero))

ConfiguredSide == Get(enforced.agent, "daily_trade_side", "BUY")

TargetNotional ==
    RMax(config.minimum_order,
         Get(enforced.agent, "daily_trade_notional_eur", config.minimum_order))

\* cash / (1 + fee_rate)
AffordableBuy ==
    RDiv(enforced.portfolio.cash_balance, RAdd(RInt(1), config.fee_rate))

Held == enforced.portfolio.positions

WorthSelling ==
    {i \in DOMAIN Held : RLe(config.minimum_order, Held[i].market_value_eur)}

EnforcedFill ==
    /\ enforced.returned # None
    /\ enforced.returned.status = "filled"

Failures ==
    {"insufficient_cash_and_no_position", "no_sell_position_and_not_enough_cash",
     "notional_below_minimum"}

\* C17: for an agent that opted in, has no trade on the date and whose
\* daily asset has a price, enforcement fails only if the agent can neither
\* afford a minimum BUY nor holds a position worth the minimum; otherwise
\* the enforcer's order fills
C17_FailsOnlyWhenInfeasible ==
    (Due /\ PriceKnown) =>
        LET feasible == \/ RLe(config.minimum_order, AffordableBuy)
                        \/ WorthSelling # {}
        IN  /\ enforced.path \in Failures => ~feasible
            /\ feasible => EnforcedFill

\* C18: side SELL, no position worth the minimum, a minimum BUY affordable:
\* the enforcer buys the daily asset for min(target, cash / (1 + fee_rate))
\* and the BUY fills
C18_SellFallsBackToBuy ==
    (/\ Due
     /\ PriceKnown
     /\ ConfiguredSide = "SELL"
     /\ WorthSelling = {}
     /\ RLe(config.minimum_order, AffordableBuy)) =>
        /\ enforced.plan # NoPlan
        /\ enforced.plan.side = "BUY"
        /\ enforced.plan.asset = DailyAsset
        /\ enforced.plan.notional = RMin(TargetNotional, AffordableBuy)
        /\ enforced.returned # None
        /\ enforced.returned.status # "raised"
        /\ EnforcedFill

BuyUnaffordable ==
    /\ Due
    /\ PriceKnown
    /\ ConfiguredSide = "BUY"
    /\ RLt(RMin(TargetNotional, AffordableBuy), config.minimum_order)

\* C19: side BUY with min(target, cash / (1 + fee_rate)) below the minimum:
\* the enforcer turns to a SELL of min(target, market value) of the position
\* in the daily asset if one is held, else of the position of largest market
\* value, and submits it when it reaches the minimum; without any position
\* it fails with 'insufficient_cash_and_no_position'
C19_BuyFallsBackToSell ==
    BuyUnaffordable =>
        IF Len(Held) = 0
        THEN /\ enforced.path = "insufficient_cash_and_no_position"
             /\ enforced.submitted = NoOrder
             /\ enforced.returned = None
        ELSE /\ enforced.plan # NoPlan
             /\ enforced.plan.side = "SELL"
             /\ \E i \in DOMAIN Held :
                  /\ Held[i].asset = enforced.plan.asset
                  /\ enforced.plan.notional =
                       RMin(TargetNotional, Held[i].market_value_eur)
                  /\ IF \E j \in DOMAIN Held : Held[j].asset = DailyAsset
                     THEN Held[i].asset = DailyAsset
                     ELSE \A j \in DOMAIN Held :
                            RLe(Held[j].market_value_eur, Held[i].market_value_eur)
             /\ RLe(config.minimum_order, enforced.plan.notional) =>
                  /\ enforced.submitted # NoOrder
                  /\ enforced.submitted.side = "SELL"
                  /\ enforced.submitted.asset = enforced.plan.asset
                  /\ enforced.submitted.notional_eur = enforced.plan.notional

\* the daily asset is not held: the largest of two positions was sold
C19_Witness ==
    /\ BuyUnaffordable
    /\ Len(Held) = 2
    /\ \A j \in DOMAIN Held : Held[j].asset # DailyAsset
    /\ enforced.submitted # NoOrder
    /\ enforced.submitted.side = "SELL"
    /\ enforced.submitted.asset = "ETH"
    /\ EnforcedFill

\* no side reached a notional of the minimum
CannotTrade ==
    /\ Due
    /\ PriceKnown
    /\ enforced.plan = NoPlan \/ RLt(enforced.plan.notional, config.minimum_order)

\* C20: when enforcement reaches no notional of the minimum, the agent's
\* turn appends exactly one 'daily_trade_enforcement_failed' event, the
\* enforcer returns None and submits no order, cash, positions and trades
\* stay as they were, and the cycle goes on to the next agent
C20_FailureIsReported ==
    [][(cycle.running /\ Len(cycle.todo) > 0 /\ cycle'.todo # cycle.todo
        /\ CannotTrade') =>
          /\ events' = Append(events,
                              [event_type |-> "daily_trade_enforcement_failed",
                               agent_id |-> cycle.todo[1].id,
                               reason |-> enforced'.path])
          /\ enforced'.path \in Failures
          /\ enforced'.returned = None
          /\ enforced'.submitted = NoOrder
          /\ enforced'.tables_after = enforced'.tables_before
          /\ <<portfolios', positions', trades'>> = <<portfolios, positions, trades>>
          /\ cycle'.running
          /\ cycle'.todo = Tail(cycle.todo)]_vars

\* the first agent's enforcement failed on a notional below the minimum and
\* the second agent is next
C20_Witness ==
    /\ CannotTrade
    /\ enforced.path = "notional_below_minimum"
    /\ enforced.agent.id = "a1"
    /\ cycle.running
    /\ Len(cycle.todo) = 1
    /\ events[Len(events)].event_type = "daily_trade_enforcement_failed"

----------------------------------------------------------------------------
(* Claims about the main loop of a cycle, read from the record of the *)
(* agent's turn: the state of the loop after its first n assets        *)

\* an agent's turn is on record and the date is still the one its orders
\* were stamped with
Turned == enforced # NoEnforced /\ enforced.now = clock
TurnAssets == enforced.agent.assets

LoopAfter(n) == AssetLoop(LoopStart(enforced.tables_start, enforced.events_start), enforced.agent, n, enforced.scores, [candles |-> enforced.candles], config)

\* the n-th asset had candles, so it was scored and a decision recorded
Evaluated(n) == TurnAssets[n] \in DOMAIN enforced.candles
PassScore(n) == enforced.scores[TurnAssets[n]]
PassPrice(n) == enforced.candles[TurnAssets[n]]

PassAction(n) ==
    DecisionFromScore(PassScore(n),
                      Get(enforced.agent, "buy_threshold", DEFAULT_BUY_THRESHOLD),
                      Get(enforced.agent, "sell_threshold", DEFAULT_SELL_THRESHOLD))

\* the portfolio read just before sizing
PassPortfolio(n) ==
    GetPortfolio(LoopAfter(n - 1).tables, enforced.agent.id,
                 [a \in {TurnAssets[n]} |-> PassPrice(n)])

\* the decision was BUY, or SELL of a held position: a notional is sized
Sizable(n) ==
    /\ Evaluated(n)
    /\ \/ PassAction(n) = "BUY"
       \/ /\ PassAction(n) = "SELL"
          /\ FindPosition(PassPortfolio(n), TurnAssets[n]) # None

PassNotional(n) ==
    IF PassAction(n) = "BUY"
    THEN ComputeBuyNotional(enforced.agent, PassPortfolio(n), PassScore(n))
    ELSE ComputeSellNotional(FindPosition(PassPortfolio(n), TurnAssets[n]),
                             PassScore(n))

BelowMinimum(n) == Sizable(n) /\ RLt(PassNotional(n), config.minimum_order)

\* C21: when the sized notional of a BUY or SELL decision is below
\* minimum_order, the pass leaves the tables (cash, positions, trades) and
\* the count of fills as they were, nothing is raised, and the loop goes on
\* to the agent's next asset, whose decision is recorded
C21_SmallOrderDropped ==
    Turned =>
      \A n \in DOMAIN TurnAssets :
        BelowMinimum(n) =>
          /\ LoopAfter(n).tables = LoopAfter(n - 1).tables
          /\ LoopAfter(n).fills = LoopAfter(n - 1).fills
          /\ LoopAfter(n).decisions = LoopAfter(n - 1).decisions + 1
          /\ n < Len(TurnAssets) /\ Evaluated(n + 1) =>
               LoopAfter(n + 1).decisions = LoopAfter(n).decisions + 1
          /\ enforced.tables_before = LoopAfter(Len(TurnAssets)).tables

\* a SELL of a position worth less than the minimum was dropped and the next
\* asset evaluated
C21_Witness ==
    /\ Turned
    /\ \E n \in DOMAIN TurnAssets :
         /\ BelowMinimum(n)
         /\ PassAction(n) = "SELL"
         /\ RLt(Zero, PassNotional(n))
         /\ n < Len(TurnAssets)
         /\ Evaluated(n + 1)

\* the order of the n-th pass and what execute_paper_order does with it
PassOrder(n) ==
    [agent_id |-> enforced.agent.id, asset |-> TurnAssets[n], side |-> PassAction(n),
     price |-> PassPrice(n), notional_eur |-> PassNotional(n), reason |-> OrganicReason]

Ordered(n) == Sizable(n) /\ ~BelowMinimum(n)

PassDone(n) == ExecutePaperOrder(LoopAfter(n - 1).tables, PassOrder(n), config.fee_rate)

\* the ledger rejected the order of the n-th pass
PassRejected(n) == Ordered(n) /\ PassDone(n).result.status = "rejected"

\* a SELL decision on an asset the agent does not hold
NothingToSell(n) ==
    /\ Evaluated(n)
    /\ PassAction(n) = "SELL"
    /\ FindPosition(PassPortfolio(n), TurnAssets[n]) = None

RejectionEvent(reason) ==
    [event_type |-> "order_rejected", agent_id |-> enforced.agent.id, reason |-> reason]

EnforcerRejected == enforced.returned # None /\ enforced.returned.status = "rejected"

\* the loop ran to its end and handed its tables and events to the enforcer
LoopCompleted ==
    /\ enforced.tables_before = LoopAfter(Len(TurnAssets)).tables
    /\ enforced.events_before = LoopAfter(Len(TurnAssets)).events

\* C22 as stated: every business rejection of the main loop (insufficient
\* cash, no position to sell, notional below minimum) appends a rejection
\* to the event log, and the loop goes on
C22_EveryRejectionLogged ==
    Turned =>
      /\ LoopCompleted
      /\ \A n \in DOMAIN TurnAssets :
           PassRejected(n) \/ BelowMinimum(n) \/ NothingToSell(n) =>
             /\ Len(LoopAfter(n).events) = Len(LoopAfter(n - 1).events) + 1
             /\ LoopAfter(n).events[Len(LoopAfter(n).events)].event_type = "order_rejected"

\* C22, amended: a rejection returned by the ledger is appended to the event
\* log as order_rejected with its reason, in the main loop and in the
\* enforcer, and leaves the tables unchanged; a notional below the minimum
\* or a SELL without position in the main loop appends nothing; in each case
\* the loop runs to its end and the enforcer is called
C22_LedgerRejectionLogged ==
    Turned =>
      /\ LoopCompleted
      /\ \A n \in DOMAIN TurnAssets :
           /\ PassRejected(n) =>
                /\ PassDone(n).result.reason \in {"insufficient_cash", "no_position"}
                /\ LoopAfter(n).events =
                     Append(LoopAfter(n - 1).events,
                            RejectionEvent(PassDone(n).result.reason))
                /\ LoopAfter(n).tables = LoopAfter(n - 1).tables
           /\ BelowMinimum(n) \/ NothingToSell(n) =>
                /\ LoopAfter(n).events = LoopAfter(n - 1).events
                /\ LoopAfter(n).tables = LoopAfter(n - 1).tables
      /\ EnforcerRejected =>
           /\ enforced.returned.reason \in {"insufficient_cash", "no_position"}
           /\ Len(enforced.events_after) = Len(enforced.events_before) + 2
           /\ enforced.events_after[Len(enforced.events_before) + 1] =
                RejectionEvent(enforced.returned.reason)
           /\ enforced.tables_after = enforced.tables_before

\* the ledger rejected an organic order and the loop went on to the next
\* asset
C22_Witness ==
    /\ Turned
    /\ \E n \in DOMAIN TurnAssets :
         /\ PassRejected(n)
         /\ n < Len(TurnAssets)
         /\ Evaluated(n + 1)
         /\ LoopAfter(n + 1).decisions = LoopAfter(n).decisions + 1

----------------------------------------------------------------------------
(* orchestrator.py: the position sizer applied to portfolio snapshots *)

\* a snapshot as get_portfolio returns it: cash, and ETH worth the given value
Snapshot(cash, value) ==
    [agent_id |-> "a1", cash_balance |-> cash, initial_balance |-> RInt(100),
     equity |-> RoundMoney(RAdd(cash, value)),
     positions |-> IF value = Zero THEN <<>>
                   ELSE <<[asset |-> "ETH", quantity |-> RDiv(value, RInt(2000)),
                           avg_price |-> RInt(2000), market_price |-> RInt(2000),
                           market_value_eur |-> value]>>]

Snapshots ==
    {Snapshot(cash, value) :
        cash \in {Zero, RInt(4), Rat(999, 100), RInt(15), RInt(75), RInt(100)},
        value \in {Zero, Rat(5, 100), RInt(3), RInt(25), RInt(90)}}

Convictions ==
    {RInt(-1), Rat(-1, 3), Zero, Rat(1, 10), Rat(3, 10), Rat(1, 3), Rat(35, 100),
     RInt(1), Rat(3, 2)}

\* the sizing keys of an agent: defaults, no cash buffer, a wider cap
SizingAgents ==
    {[id |-> "a1"], [id |-> "a1", cash_buffer_pct |-> Zero],
     [id |-> "a1", max_position_pct |-> Rat(1, 2), cash_buffer_pct |-> Rat(5, 100)]}

\* the tables of an agent with the given cash, holding ETH of the given value
SizingTables(cash, value) ==
    [portfolios |-> [a \in {"a1"} |-> PortfolioRow(cash, RInt(STARTING_CAPITAL))],
     positions |-> IF value = Zero THEN {}
                   ELSE {[agent_id |-> "a1", asset |-> "ETH",
                          quantity |-> RDiv(value, RInt(2000)),
                          avg_price |-> RInt(2000)]},
     trades |-> <<>>]

\* one pass of the main loop on BTC: the agent, the tables, the score, the
\* fee rate
PassInputs ==
    {Pending("asset_pass", <<agent, SizingTables(cash, value), conviction, rate>>) :
        agent \in SizingAgents,
        cash \in {Rat(9994, 1000), RInt(15), Rat(5502, 100), RInt(100)},
        value \in {Zero, Rat(4501, 100), RInt(90)},
        conviction \in {Rat(3, 10), RInt(1)},
        rate \in {DEFAULT_FEE_RATE, Rat(1, 10)}}

SizeInputs ==
    {Pending("_compute_buy_notional", <<agent, portfolio, conviction>>) :
        agent \in SizingAgents, portfolio \in Snapshots, conviction \in Convictions}
    \cup {Pending("_compute_sell_notional", <<portfolio.positions[1], conviction>>) :
            portfolio \in {p \in Snapshots : Len(p.positions) > 0},
            conviction \in Convictions}
    \cup PassInputs

InitSize ==
    /\ clock = 1
    /\ AtRest(InitialTables)
    /\ prev = NoPrev
    /\ config = NoConfig
    /\ cycle = NoCycle
    /\ events = <<>>
    /\ enforced = NoEnforced
    /\ probe \in SizeInputs
    /\ agents = InitialAgents

ApplyComputeBuyNotional ==
    Apply("_compute_buy_notional",
          ComputeBuyNotional(probe.args[1], probe.args[2], probe.args[3]))

ApplyComputeSellNotional ==
    Apply("_compute_sell_notional", ComputeSellNotional(probe.args[1], probe.args[2]))

\* the body of the loop over the assets, for BTC at 60000
ApplyAssetStep ==
    Apply("asset_pass",
          AssetStep(LoopStart(probe.args[2], <<>>), probe.args[1], "BTC",
                    [a \in {"BTC"} |-> probe.args[3]],
                    [candles |-> [a \in {"BTC"} |-> RInt(60000)]],
                    [fee_rate |-> probe.args[4], minimum_order |-> RInt(MINIMUM_ORDER)]))

NextSize ==
    \/ ApplyComputeBuyNotional
    \/ ApplyComputeSellNotional
    \/ ApplyAssetStep

SpecSize == InitSize /\ [][NextSize]_vars

----------------------------------------------------------------------------
(* Claims about the position sizer *)

SizedBuy == Applied("_compute_buy_notional")
SizingEquity == probe.args[2].equity
SizingCash == probe.args[2].cash_balance

\* equity * max_position_pct * clamp(|score|, 0.25, 1.0)
SizingTarget ==
    RMul(RMul(SizingEquity, Get(probe.args[1], "max_position_pct", Rat(2, 10))),
         Clamp(RAbs(probe.args[3]), Rat(1, 4), RInt(1)))

\* max(0, cash - equity * cash_buffer_pct)
SizingAvailable ==
    RMax(Zero, RSub(SizingCash,
                    RMul(SizingEquity, Get(probe.args[1], "cash_buffer_pct", Rat(1, 10)))))

SizingBound == RMin(SizingTarget, SizingAvailable)

\* C23 as stated: the BUY notional is at least 0, at most the target, at
\* most the available cash, and equal to the smaller of the two
C23_BuyNotionalIsSmallerBound ==
    SizedBuy =>
      /\ RLe(Zero, probe.value)
      /\ RLe(probe.value, SizingTarget)
      /\ RLe(probe.value, SizingAvailable)
      /\ probe.value = SizingBound

\* C23, amended: the BUY notional is the smaller of the two bounds rounded
\* to the money grid; it is at least 0, within half a grid step of that
\* bound, and 0 when cash is at or below the buffer
C23_BuyNotionalIsRoundedBound ==
    SizedBuy =>
      /\ RLe(Zero, probe.value)
      /\ probe.value = RoundMoney(SizingBound)
      /\ RLe(RAbs(RSub(probe.value, SizingBound)), Rat(1, 2 * MoneyGrid))
      /\ SizingAvailable = Zero => probe.value = Zero

\* a weak score sized at the floor of the conviction scale and rounded
C23_Witness ==
    /\ SizedBuy
    /\ RLt(RAbs(probe.args[3]), Rat(1, 4))
    /\ RLt(Zero, probe.value)
    /\ probe.value # SizingBound

----------------------------------------------------------------------------
(* Claims about organic orders *)

\* the n-th pass sent a BUY and the ledger filled it
PassFilledBuy(n) ==
    Ordered(n) /\ PassAction(n) = "BUY" /\ PassDone(n).result.status = "filled"

\* the portfolio after the n-th pass, at the price of its order
PortfolioAfter(n) ==
    GetPortfolio(LoopAfter(n).tables, enforced.agent.id,
                 [a \in {TurnAssets[n]} |-> PassPrice(n)])

\* C24: after every organic BUY fill the agent's position in the asset is
\* worth at most equity * max_position_pct and the remaining cash is at least
\* equity * cash_buffer_pct, with the equity the order was sized on and the
\* position valued at the order price
C24_CapAndBufferKept ==
    Turned =>
      \A n \in DOMAIN TurnAssets :
        PassFilledBuy(n) =>
          /\ RLe(FindPosition(PortfolioAfter(n), TurnAssets[n]).market_value_eur,
                 RMul(PassPortfolio(n).equity,
                      Get(enforced.agent, "max_position_pct", Rat(2, 10))))
          /\ RLe(RMul(PassPortfolio(n).equity,
                      Get(enforced.agent, "cash_buffer_pct", Rat(1, 10))),
                 PortfolioAfter(n).cash_balance)

----------------------------------------------------------------------------
(* get_portfolio.py: initialize_database, called on an empty database and *)
(* again between the orders of the ledger                                  *)

MaxSetupTrades == 2

\* the agents of a configuration: the first under two names, the second
AgentDicts ==
    {[id |-> "a1", name |-> "Alpha"],
     [id |-> "a1", name |-> "Beta", risk_profile |-> "bold", assets |-> <<"BTC">>],
     [id |-> "a2", name |-> "Gamma"]}

\* the lists of one agent, and the two agents together with the first one
\* renamed
AgentLists ==
    {<<x>> : x \in {d \in AgentDicts : "risk_profile" \notin DOMAIN d}}
    \cup {<<x, y>> : x \in {d \in AgentDicts : "risk_profile" \in DOMAIN d},
                     y \in {d \in AgentDicts : d.id = "a2"}}

StartingCapitals == {RInt(STARTING_CAPITAL), RInt(2 * STARTING_CAPITAL)}

SetupOrders ==
    {o \in ValidOrders :
        o.asset = "BTC" /\ o.price = RInt(60000) /\ o.notional_eur = RInt(50)}

\* INSERT INTO agents ... ON CONFLICT(id) DO UPDATE SET every column but
\* created_at
UpsertAgent(rows, agent, now) ==
    Merge(rows,
          [a \in {agent.id} |->
              AgentRow(agent.name, Get(agent, "risk_profile", "balanced"),
                       Get(agent, "assets", <<>>), Get(agent, "timeframes", <<>>),
                       IF agent.id \in DOMAIN rows THEN rows[agent.id].created_at
                       ELSE now,
                       now)])

InsertPortfolioOrReplace(rows, agent_id, starting_capital) ==
    Merge(rows, [a \in {agent_id} |-> PortfolioRow(starting_capital, starting_capital)])

\* INSERT OR IGNORE INTO portfolios: agent_id is the primary key
InsertPortfolioOrIgnore(rows, agent_id, starting_capital) ==
    IF agent_id \in DOMAIN rows THEN rows
    ELSE Merge(rows, [a \in {agent_id} |-> PortfolioRow(starting_capital, starting_capital)])

\* initialize_database: for agent in agents, both INSERTs; db holds the
\* tables agents and portfolios
RECURSIVE InitializeDatabase(_, _, _, _)
InitializeDatabase(db, agent_list, starting_capital, now) ==
    IF agent_list = <<>> THEN db
    ELSE InitializeDatabase(
             [agents |-> UpsertAgent(db.agents, Head(agent_list), now),
              portfolios |-> InsertPortfolioOrIgnore(db.portfolios, Head(agent_list).id,
                                                     starting_capital)],
             Tail(agent_list), starting_capital, now)

\* the database with its schema and no row
InitSetup ==
    /\ clock = 1
    /\ AtRest([portfolios |-> <<>>, positions |-> {}, trades |-> <<>>])
    /\ prev = NoPrev
    /\ config = NoConfig
    /\ cycle = NoCycle
    /\ events = <<>>
    /\ enforced = NoEnforced
    /\ probe = NoProbe
    /\ agents = <<>>

\* a call of initialize_database; prev keeps the call and the tables before
Initialize(agent_list, starting_capital) ==
    /\ \E db \in {InitializeDatabase([agents |-> agents, portfolios |-> portfolios],
                                     agent_list, starting_capital, clock)} :
         /\ agents' = db.agents
         /\ portfolios' = db.portfolios
         /\ conn' = [conn EXCEPT !.portfolios = db.portfolios]
    /\ prev' = [fn |-> "initialize_database", agents |-> agent_list,
                starting_capital |-> starting_capital, tables |-> Tables]
    /\ UNCHANGED <<positions, trades, pc, order, requested, fee_rate, loc, result,
                   pre, calls, fills, rdvars, clock, config, cycle, events,
                   enforced, probe>>

\* a whole call of execute_paper_order
PlaceOrder(o, rate) ==
    /\ calls < MaxSetupTrades
    /\ \E done \in {ExecutePaperOrder(Tables, o, rate)} :
         /\ portfolios' = done.tables.portfolios
         /\ positions' = done.tables.positions
         /\ trades' = done.tables.trades
         /\ conn' = done.tables
         /\ result' = done.result
         /\ order' = done.order
         /\ fills' = fills + (IF done.result.status = "filled" THEN 1 ELSE 0)
    /\ requested' = o.notional_eur
    /\ fee_rate' = rate
    /\ pre' = Tables
    /\ calls' = calls + 1
    /\ prev' = [fn |-> "execute_paper_order", agents |-> <<>>,
                starting_capital |-> Zero, tables |-> Tables]
    /\ UNCHANGED <<pc, loc, rdvars, clock, config, cycle, events, enforced, probe,
                   agents>>

NextSetup ==
    \/ \E agent_list \in AgentLists, starting_capital \in StartingCapitals :
          Initialize(agent_list, starting_capital)
    \/ \E o \in SetupOrders : PlaceOrder(o, DEFAULT_FEE_RATE)
    \/ Tick

SpecSetup == InitSetup /\ [][NextSetup]_vars

----------------------------------------------------------------------------
(* Claims about the portfolio rows *)

Initialized == prev # NoPrev /\ prev.fn = "initialize_database"

\* C25: a portfolio row is created by initialize_database only, for an agent
\* of its list that had none, with cash_balance = initial_balance = the
\* starting capital of that call; a call leaves every existing portfolio
\* row, the positions and the trades as they were; initial_balance of a row
\* never changes and no step removes a row
C25_Step ==
    /\ \A a \in DOMAIN portfolios :
         /\ a \in DOMAIN portfolios'
         /\ portfolios'[a].initial_balance = portfolios[a].initial_balance
    /\ \A a \in DOMAIN portfolios' \ DOMAIN portfolios :
         /\ prev'.fn = "initialize_database"
         /\ \E i \in DOMAIN prev'.agents : prev'.agents[i].id = a
         /\ portfolios'[a] = PortfolioRow(prev'.starting_capital, prev'.starting_capital)
    /\ prev' # prev /\ prev'.fn = "initialize_database" =>
         /\ \A a \in DOMAIN portfolios : portfolios'[a] = portfolios[a]
         /\ \A i \in DOMAIN prev'.agents : prev'.agents[i].id \in DOMAIN portfolios'
         /\ positions' = positions
         /\ trades' = trades

C25_PortfolioCreatedOnce == [][C25_Step]_vars

\* initialize_database was called with another starting capital for an
\* agent that had traded
C25_Witness ==
    /\ Initialized
    /\ \E i \in DOMAIN prev.agents :
         /\ prev.agents[i].id \in DOMAIN prev.tables.portfolios
         /\ portfolios[prev.agents[i].id].initial_balance # prev.starting_capital
         /\ portfolios[prev.agents[i].id].cash_balance
              # portfolios[prev.agents[i].id].initial_balance
         /\ \E r \in positions : r.agent_id = prev.agents[i].id

----------------------------------------------------------------------------
(* Claims about the order of the steps of a cycle *)

AgentIds(agent_dicts) == [i \in DOMAIN agent_dicts |-> agent_dicts[i].id]

StartsWith(long, short) ==
    Len(short) <= Len(long) /\ SubSeq(long, 1, Len(short)) = short

\* the agents done and the agents left are the configured ones, in order;
\* the enforcer was handed what the loop over the assets left, and what it
\* leaves in turn keeps the loop's trades and events, adding to them only
\* when it submits an order or logs an event
C26_InOrder ==
    /\ cycle.running => cycle.turns \o AgentIds(cycle.todo) = AgentIds(config.agents)
    /\ ~cycle.running /\ cycle.number > 0 => cycle.turns = AgentIds(config.agents)
    /\ Turned =>
         /\ LoopCompleted
         /\ StartsWith(enforced.tables_after.trades, enforced.tables_before.trades)
         /\ StartsWith(enforced.events_after, enforced.events_before)
         /\ enforced.submitted = NoOrder =>
              enforced.tables_after = enforced.tables_before

\* a step that records an enforcer call is the turn of the first agent left:
\* its loop starts from the tables and events of the state before, which
\* within a cycle are those the previous agent's enforcer left, and the step
\* ends with what this agent's enforcer leaves
C26_Turn ==
    enforced' # enforced =>
      /\ cycle.running
      /\ enforced'.agent = cycle.todo[1]
      /\ cycle'.turns = Append(cycle.turns, cycle.todo[1].id)
      /\ enforced'.tables_start = Tables
      /\ enforced'.events_start = events
      /\ enforced'.tables_after = [portfolios |-> portfolios', positions |-> positions',
                                   trades |-> trades']
      /\ enforced'.events_after = events'
      /\ enforced # NoEnforced /\ enforced.cycle = enforced'.cycle =>
           /\ enforced'.tables_start = enforced.tables_after
           /\ enforced'.events_start = enforced.events_after

\* C26: in a cycle the agents are processed one at a time in configuration
\* order; an agent's organic orders are all committed or rejected before its
\* enforcer runs; the enforcer runs once per agent per cycle and is over
\* before the next agent's first evaluation
C26_AgentsInTurn == [](C26_InOrder) /\ [][C26_Turn]_vars

\* the second agent's enforcer submitted an order after the first agent had
\* traded in the same cycle
C26_Witness ==
    /\ Turned
    /\ cycle.turns = <<"a1", "a2">>
    /\ enforced.submitted # NoOrder
    /\ Len(enforced.tables_start.trades) > 0
    /\ enforced.tables_start.trades[Len(enforced.tables_start.trades)].created_at
         = enforced.trade_date
    /\ Len(enforced.tables_after.trades) > Len(enforced.tables_start.trades)

----------------------------------------------------------------------------
(* Claims about what one ledger call can touch *)

\* the position rows outside the call's (agent, asset)
Elsewhere(rows) ==
    {r \in rows : r.agent_id # order.agent_id \/ r.asset # order.asset}

\* C27: during and after a call of execute_paper_order for (agent, asset),
\* whatever its outcome, the cash and initial balance of every other agent,
\* every position row of another agent or another asset, and the set of
\* portfolio rows are those of the moment the call began; the trade log
\* only grows
C27_CallTouchesOwnRows ==
    calls > 0 =>
      /\ DOMAIN portfolios = DOMAIN pre.portfolios
      /\ \A a \in DOMAIN portfolios :
           a # order.agent_id => portfolios[a] = pre.portfolios[a]
      /\ Elsewhere(positions) = Elsewhere(pre.positions)
      /\ StartsWith(trades, pre.trades)

\* a fill changed the agent's cash and position while another agent, who
\* had bought before, held a position
C27_Witness ==
    /\ Filled
    /\ NowRow.cash_balance # PreRow.cash_balance
    /\ NowPosition # PrePosition
    /\ \E r \in Elsewhere(positions) :
         /\ r.agent_id # order.agent_id
         /\ portfolios[r.agent_id].cash_balance # portfolios[r.agent_id].initial_balance

----------------------------------------------------------------------------
(* Claims about the ledger's books *)

\* what the trade rows of an agent add to its cash: -(notional + fee) for a
\* BUY, notional - fee for a SELL
CashFlow(agent_id) ==
    RSum([i \in DOMAIN trades |->
            IF trades[i].agent_id # agent_id THEN Zero
            ELSE IF trades[i].side = "BUY"
            THEN RSub(Zero, RAdd(trades[i].notional, trades[i].fee))
            ELSE RSub(trades[i].notional, trades[i].fee)])

\* bought minus sold quantity of an (agent, asset)
NetQuantity(agent_id, asset) ==
    RSum([i \in DOMAIN trades |->
            IF trades[i].agent_id # agent_id \/ trades[i].asset # asset THEN Zero
            ELSE IF trades[i].side = "BUY" THEN trades[i].quantity
            ELSE RSub(Zero, trades[i].quantity)])

HeldQuantity(agent_id, asset) ==
    IF FetchPosition(Tables, agent_id, asset) = NoRow THEN Zero
    ELSE FetchPosition(Tables, agent_id, asset).quantity

\* SELL rows of an (agent, asset): each may have dropped one dust quantity
Sells(agent_id, asset) ==
    Cardinality({i \in DOMAIN trades :
                   /\ trades[i].agent_id = agent_id
                   /\ trades[i].asset = asset
                   /\ trades[i].side = "SELL"})

\* C28: in every state each agent's cash_balance is initial_balance minus
\* notional + fee of its BUY rows plus notional - fee of its SELL rows, and
\* the quantity held of each asset is bought minus sold quantity, less the
\* dust of at most 1e-10 that each closing SELL may have dropped
C28_BooksReconcile ==
    \A a \in DOMAIN portfolios :
      /\ portfolios[a].cash_balance = RAdd(portfolios[a].initial_balance, CashFlow(a))
      /\ \A x \in Assets :
           /\ RLe(HeldQuantity(a, x), NetQuantity(a, x))
           /\ HeldQuantity(a, x) # NetQuantity(a, x) =>
                /\ Sells(a, x) > 0
                /\ IsDust(RDiv(RSub(NetQuantity(a, x), HeldQuantity(a, x)),
                               RInt(Sells(a, x))))

\* an agent bought and sold part of the position, paying a fee both times
C28_Witness ==
    \E a \in DOMAIN portfolios, x \in Assets :
      /\ Sells(a, x) > 0
      /\ RLt(Zero, HeldQuantity(a, x))
      /\ \A i \in DOMAIN trades : trades[i].agent_id = a /\ RLt(Zero, trades[i].fee)
      /\ Len(trades) = 2

----------------------------------------------------------------------------
(* Claims about the orders the ledger receives from the orchestrator *)

ForcedOrder == enforced # NoEnforced /\ enforced.submitted # NoOrder

\* C29: an order submitted by the daily-trade enforcer is not rejected: a
\* forced BUY has notional at most cash / (1 + fee_rate), so that notional
\* plus fee is at most the cash, and a forced SELL is for an asset of which
\* the agent holds a positive quantity
C29_ForcedOrderAccepted ==
    ForcedOrder =>
      /\ enforced.returned.status # "rejected"
      /\ enforced.submitted.side = "BUY" =>
           /\ RLe(enforced.submitted.notional_eur, AffordableBuy)
           /\ RLe(TotalCost(enforced.submitted.notional_eur,
                            Fee(enforced.submitted.notional_eur, config.fee_rate)),
                  FetchPortfolio(enforced.tables_before, enforced.agent.id).cash_balance)
      /\ enforced.submitted.side = "SELL" =>
           /\ FetchPosition(enforced.tables_before, enforced.agent.id,
                            enforced.submitted.asset) # NoRow
           /\ RLt(Zero, FetchPosition(enforced.tables_before, enforced.agent.id,
                                      enforced.submitted.asset).quantity)

\* the SELL half of the statement alone
C29_ForcedSellHasPosition ==
    ForcedOrder /\ enforced.submitted.side = "SELL" =>
      /\ enforced.returned.status = "filled"
      /\ FetchPosition(enforced.tables_before, enforced.agent.id,
                       enforced.submitted.asset) # NoRow

\* an organic BUY pass was applied to the probe's tables
Passed == Applied("asset_pass")
PassedAgent == probe.args[1]
PassedRate == probe.args[4]
PassedCash == probe.args[2].portfolios["a1"].cash_balance

\* the portfolio read immediately before sizing, and the sized notional
PassedPortfolio == GetPortfolio(probe.args[2], "a1", [a \in {"BTC"} |-> RInt(60000)])
PassedNotional == ComputeBuyNotional(PassedAgent, PassedPortfolio, probe.args[3])
PassedOn == Passed /\ RLe(RInt(MINIMUM_ORDER), PassedNotional)

PassedEvent(event_type, reason) ==
    probe.value.events = <<[event_type |-> event_type, agent_id |-> "a1", reason |-> reason]>>

\* equity * (cash_buffer_pct - fee_rate * max_position_pct)
BufferMargin ==
    RMul(PassedPortfolio.equity,
         RSub(Get(PassedAgent, "cash_buffer_pct", Rat(1, 10)),
              RMul(PassedRate, Get(PassedAgent, "max_position_pct", Rat(2, 10)))))

\* C30 as stated: an organic BUY sized from the portfolio read just before is
\* not rejected for insufficient cash when fee_rate * max_position_pct is at
\* most cash_buffer_pct
C30_BufferCoversFee ==
    PassedOn /\ RLe(Zero, BufferMargin) =>
      ~PassedEvent("order_rejected", "insufficient_cash")

\* C30, amended: the order is filled when the buffer exceeds the fee on a
\* full-size order by at least one rounding step of the notional and of the
\* cash read, that is when equity * (cash_buffer_pct - fee_rate *
\* max_position_pct) is at least (1 + fee_rate) grid steps
C30_BufferCoversFeeAndRounding ==
    PassedOn /\ RLe(RMul(Rat(1, MoneyGrid), RAdd(RInt(1), PassedRate)), BufferMargin) =>
      /\ PassedEvent("paper_trade", "none")
      /\ RLe(TotalCost(PassedNotional, Fee(PassedNotional, PassedRate)), PassedCash)

\* the available cash, not the target, sized the order, and it was filled
C30_Witness ==
    /\ PassedOn
    /\ RLe(RMul(Rat(1, MoneyGrid), RAdd(RInt(1), PassedRate)), BufferMargin)
    /\ RLt(PassedNotional,
           RMul(RMul(PassedPortfolio.equity,
                     Get(PassedAgent, "max_position_pct", Rat(2, 10))),
                ConvictionScale(probe.args[3])))
    /\ PassedEvent("paper_trade", "none")

\* without a cash buffer the sized notional is the whole cash and the order
\* is rejected
C30_RejectedWithoutBuffer ==
    /\ PassedOn
    /\ Get(PassedAgent, "cash_buffer_pct", Rat(1, 10)) = Zero
    /\ PassedNotional = PassedPortfolio.cash_balance
    /\ PassedEvent("order_rejected", "insufficient_cash")

====
